---- MODULE Spec2Model ----
(***************************************************************************)
(* Wordle bot (jontras_bot): the statistics engine, the rank-change        *)
(* detector, the parser, the submission handler, the slash commands and    *)
(* the daily digest, modelled from                                         *)
(* src/src/features/wordle/statistics.ts, storage.ts, the parser           *)
(* (src/unnamed/part_000), the schema (src/unnamed/part_002) and           *)
(* src/src/index.ts.                                                       *)
(*                                                                         *)
(* Numbers.  getScores adds weights 1/n; the model keeps a score as an     *)
(* exact integer multiple of 1/ScoreUnit.  getAverages rounds to two       *)
(* decimals; the model keeps an average as an integer number of            *)
(* hundredths.  A JavaScript object or Map keeps its keys in insertion     *)
(* order; the model keeps that order in a sequence of keys.                *)
(***************************************************************************)
EXTENDS Integers, Sequences, FiniteSets, TLC

\* ------------------------------------------------------------------ bounds

\* longest submission list handed to a statistics function
MaxLen == 3
\* messages delivered to the bot in one run
MaxMessages == 3
\* runDailyDigest invocations in one run
MaxRuns == 2
\* today's puzzle index when the run starts
StartDay == 3
\* most grid rows of a message text handed to the parser
MaxRows == 7

\* ------------------------------------------------------- program constants

\* statistics.ts:38  windowSize = 7
DefaultWindowSize == 7
\* part_000:81  a failure counts as 6 guesses
FailurePenalty == 6
\* the failure sentinel, part_000:32
Failed == -1
\* statistics.ts:4
SecondsInDay == 86400
\* a tolerance of two days
ClampToleranceTwo == 1 + 1
\* part_000:68  tolerance = 1
ClampTolerance == 1

\* ------------------------------------------------------------ input domains

Players == {"A", "B", "C"}
StatDays == {1, 2}
StatGuesses == {Failed, 3, 4}

\* a WordleResult as the statistics functions read it (types.ts:1-9)
StatSubs ==
    [playerId : Players, wordleDay : StatDays, guesses : StatGuesses,
     secondsSinceMidnight : {0}]

RECURSIVE Fact(_)
Fact(n) == IF n <= 1 THEN 1 ELSE n * Fact(n - 1)

\* one point, in score units: divisible by every possible number of winners
ScoreUnit == Fact(Cardinality(Players))

VARIABLES
    results,        \* the submission list handed to a statistics function
    applied,        \* the function that was applied ("none" before)
    args,           \* its further arguments
    output,         \* what it returned
    oldBoard,       \* getPlayersPassed: the leaderboard before
    newBoard,       \* getPlayersPassed: the leaderboard after
    dbConfigured,   \* db !== undefined (index.ts:911)
    submissions,    \* the rows of table submissions
    chatSettings,   \* the chat_settings row of each channel (defaults when absent)
    dailyDigestLog, \* the rows of table daily_digest_log: <<channel, day>>
    clock,          \* what the handlers read off the clock
    handlers,       \* the webhook invocations in flight
    received,       \* number of messages delivered so far
    saveLog,        \* per triple: how many saveSubmission calls succeeded / were rejected
    accepted,       \* the rows whose saveSubmission call returned normally
    digests,        \* the runDailyDigest invocations
    digestSent,     \* per <<channel, day>>: digest messages handed to bot.sendMessage
    crashed,        \* the process has been stopped and restarted
    overlapped,     \* two runDailyDigest invocations have been in flight together
    command,        \* the slash command handled last, with what it sent
    podiumsSent,    \* per <<channel, day>>: early-podium messages handed to sendMessage
    acksSent        \* per triple: 'Logged Wordle' messages handed to sendMessage

statVars == <<results, applied, args, output, oldBoard, newBoard>>
storeVars == <<dbConfigured, submissions, chatSettings, dailyDigestLog, clock>>
handlerVars == <<handlers, received, saveLog, accepted>>
digestVars == <<digests, digestSent, crashed, overlapped>>
commandVars == <<command>>
sentVars == <<podiumsSent, acksSent>>
vars == <<statVars, storeVars, handlerVars, digestVars, commandVars, sentVars>>

\* ------------------------------------------------------------ JS containers

\* Set.add / first insertion of a key: position kept, no duplicate
SetAdd(seq, x) ==
    IF \E i \in 1..Len(seq) : seq[i] = x THEN seq ELSE Append(seq, x)

SeqToSet(seq) == {seq[i] : i \in 1..Len(seq)}

\* a Leaderboard (Record<string, number>): keys in insertion order and values
EmptyBoard == [keys |-> <<>>, val |-> <<>>]

\* board[p] ?? 0
ScoreOrZero(board, p) == IF p \in DOMAIN board.val THEN board.val[p] ELSE 0
\* board[p] = w, without the previous value
BoardAddOverwrite(board, p, w) ==
    [keys |-> SetAdd(board.keys, p),
     val |-> [q \in DOMAIN board.val \cup {p} |->
                 IF q = p THEN w ELSE board.val[q]]]

\* board[p] = (board[p] ?? 0) + w
BoardAdd(board, p, w) ==
    [keys |-> SetAdd(board.keys, p),
     val |-> [q \in DOMAIN board.val \cup {p} |->
                 IF q = p THEN ScoreOrZero(board, p) + w ELSE board.val[q]]]

\* ---------------------------------------------------------------- getScores

\* index of the Map entry of a day, 0 when the Map has none
DayIndex(best, day) ==
    IF \E i \in 1..Len(best) : best[i].day = day
    THEN CHOOSE i \in 1..Len(best) : best[i].day = day
    ELSE 0

\* the loop without the skip of failed submissions
BestPerDayStepKeepsFailures(best, result) ==
    LET i == DayIndex(best, result.wordleDay)
        fresh == [day |-> result.wordleDay, guesses |-> result.guesses,
                  winners |-> <<result.playerId>>]
    IN  IF i = 0 THEN Append(best, fresh)
        ELSE IF result.guesses < best[i].guesses
             THEN [best EXCEPT ![i] = fresh]
        ELSE IF result.guesses = best[i].guesses
             THEN [best EXCEPT ![i].winners = SetAdd(@, result.playerId)]
        ELSE best
\* the loop without the addition of a player who ties the best of the day
BestPerDayStepFirstWinnerOnly(best, result) ==
    IF result.guesses = Failed THEN best
    ELSE LET i == DayIndex(best, result.wordleDay)
             fresh == [day |-> result.wordleDay, guesses |-> result.guesses,
                       winners |-> <<result.playerId>>]
         IN  IF i = 0 THEN Append(best, fresh)
             ELSE IF result.guesses < best[i].guesses
                  THEN [best EXCEPT ![i] = fresh]
             ELSE best

\* one iteration of the loop of statistics.ts:13-24
BestPerDayStep(best, result) ==
    IF result.guesses = Failed THEN best
    ELSE LET i == DayIndex(best, result.wordleDay)
             fresh == [day |-> result.wordleDay, guesses |-> result.guesses,
                       winners |-> <<result.playerId>>]
         IN  IF i = 0 THEN Append(best, fresh)
             ELSE IF result.guesses < best[i].guesses
                  THEN [best EXCEPT ![i] = fresh]
             ELSE IF result.guesses = best[i].guesses
                  THEN [best EXCEPT ![i].winners = SetAdd(@, result.playerId)]
             ELSE best

RECURSIVE BestPerDayFrom(_, _, _)
BestPerDayFrom(list, k, best) ==
    IF k > Len(list) THEN best
    ELSE BestPerDayFrom(list, k + 1, BestPerDayStep(best, list[k]))

\* the Map bestPerDay after the first loop, in insertion order
BestPerDay(list) == BestPerDayFrom(list, 1, <<>>)

\* every winner credited a whole point
WinnerWeightWhole(winners) == IF Len(winners) > 0 THEN ScoreUnit ELSE 0

\* statistics.ts:29  weight = winners.size > 0 ? 1 / winners.size : 0
WinnerWeight(winners) ==
    IF Len(winners) > 0 THEN ScoreUnit \div Len(winners) ELSE 0

RECURSIVE CreditWinners(_, _, _, _)
CreditWinners(board, winners, k, weight) ==
    IF k > Len(winners) THEN board
    ELSE CreditWinners(BoardAdd(board, winners[k], weight), winners, k + 1, weight)

RECURSIVE CreditDays(_, _, _)
CreditDays(board, best, k) ==
    IF k > Len(best) THEN board
    ELSE CreditDays(
             CreditWinners(board, best[k].winners, 1, WinnerWeight(best[k].winners)),
             best, k + 1)

getScores(list) == CreditDays(EmptyBoard, BestPerDay(list), 1)

\* ---------------------------------------------------------- getWeeklyScores

\* the window without its last puzzle index
InWindowOpenEnd(result, startWordleDay, windowSize) ==
    LET endWordleDay == startWordleDay + windowSize - 1
    IN  result.wordleDay >= startWordleDay /\ result.wordleDay < endWordleDay

InWindow(result, startWordleDay, windowSize) ==
    LET endWordleDay == startWordleDay + windowSize - 1
    IN  result.wordleDay >= startWordleDay /\ result.wordleDay <= endWordleDay

getWeeklyScores(list, startWordleDay, windowSize) ==
    LET Keep(result) == InWindow(result, startWordleDay, windowSize)
    IN  getScores(SelectSeq(list, Keep))

\* the call with windowSize omitted
getWeeklyScoresDefault(list, startWordleDay) ==
    getWeeklyScores(list, startWordleDay, DefaultWindowSize)

\* -------------------------------------------------------------- getAverages

\* the sentinel taken as a guess count
positiveGuessesRaw(guesses) == guesses

positiveGuesses(guesses) == IF guesses = Failed THEN FailurePenalty ELSE guesses

\* Number((total / count).toFixed(2)) in hundredths: the nearest hundredth,
\* the larger one on a tie
ToFixed2(total, count) == (200 * total + count) \div (2 * count)

RECURSIVE SumCountFrom(_, _, _, _)
SumCountFrom(list, k, sums, counts) ==
    IF k > Len(list) THEN [sums |-> sums, counts |-> counts]
    ELSE SumCountFrom(list, k + 1,
             BoardAdd(sums, list[k].playerId, positiveGuesses(list[k].guesses)),
             BoardAdd(counts, list[k].playerId, 1))

getAverages(list) ==
    LET sc == SumCountFrom(list, 1, EmptyBoard, EmptyBoard)
    IN  [keys |-> sc.sums.keys,
         val |-> [p \in DOMAIN sc.sums.val |->
                     ToFixed2(sc.sums.val[p], sc.counts.val[p])]]

\* --------------------------------------------------------- getPlayersPassed

RECURSIVE AddAll(_, _, _)
AddAll(seq, more, k) ==
    IF k > Len(more) THEN seq ELSE AddAll(SetAdd(seq, more[k]), more, k + 1)

\* new Set([...Object.keys(oldBoard), ...Object.keys(newBoard)])
BoardPlayers(old, new) == AddAll(AddAll(<<>>, old.keys, 1), new.keys, 1)

\* only players strictly behind before count as passed
HasPassedStrict(old, new, player, other) ==
    /\ ScoreOrZero(old, player) < ScoreOrZero(old, other)
    /\ ScoreOrZero(new, player) > ScoreOrZero(new, other)

\* the condition of statistics.ts:124
HasPassed(old, new, player, other) ==
    /\ ScoreOrZero(old, player) <= ScoreOrZero(old, other)
    /\ ScoreOrZero(new, player) > ScoreOrZero(new, other)

\* passed[player].push(other), creating the entry on its first use
PassedPush(passed, player, other) ==
    [keys |-> SetAdd(passed.keys, player),
     val |-> [q \in DOMAIN passed.val \cup {player} |->
                 IF q = player
                 THEN (IF player \in DOMAIN passed.val
                       THEN Append(passed.val[player], other)
                       ELSE <<other>>)
                 ELSE passed.val[q]]]

RECURSIVE PassedInner(_, _, _, _, _, _)
PassedInner(passed, old, new, players, i, j) ==
    IF j > Len(players) THEN passed
    ELSE IF players[i] = players[j]
         THEN PassedInner(passed, old, new, players, i, j + 1)
    ELSE IF HasPassed(old, new, players[i], players[j])
         THEN PassedInner(PassedPush(passed, players[i], players[j]),
                          old, new, players, i, j + 1)
    ELSE PassedInner(passed, old, new, players, i, j + 1)

RECURSIVE PassedOuter(_, _, _, _, _)
PassedOuter(passed, old, new, players, i) ==
    IF i > Len(players) THEN passed
    ELSE PassedOuter(PassedInner(passed, old, new, players, i, 1),
                     old, new, players, i + 1)

getPlayersPassed(old, new) ==
    PassedOuter(EmptyBoard, old, new, BoardPlayers(old, new), 1)
\* the entry of whoever comes first in the result, not of playerId
PassedByFirstKey(old, new, playerId) ==
    LET passed == getPlayersPassed(old, new)
    IN  IF Len(passed.keys) > 0 THEN passed.val[passed.keys[1]] ELSE <<>>

\* getPlayersPassed(old, new)[playerId] ?? []   (index.ts:770)
PassedBy(old, new, playerId) ==
    LET passed == getPlayersPassed(old, new)
    IN  IF playerId \in DOMAIN passed.val THEN passed.val[playerId] ELSE <<>>

\* -------------------------------------------------- getDayLeaderboardsMulti

GroupIndex(groups, guesses) ==
    IF \E i \in 1..Len(groups) : groups[i].guesses = guesses
    THEN CHOOSE i \in 1..Len(groups) : groups[i].guesses = guesses
    ELSE 0

\* statistics.ts:84-89: the Map from guess count to the Set of players
RECURSIVE GroupFrom(_, _, _)
GroupFrom(list, k, groups) ==
    IF k > Len(list) THEN groups
    ELSE LET i == GroupIndex(groups, list[k].guesses)
         IN  GroupFrom(list, k + 1,
                 IF i = 0
                 THEN Append(groups, [guesses |-> list[k].guesses,
                                      playerIds |-> <<list[k].playerId>>])
                 ELSE [groups EXCEPT ![i].playerIds = SetAdd(@, list[k].playerId)])
\* the group put last, whatever its guess count
InsertGroupAtEnd(sorted, g) == Append(sorted, g)

\* insert a group into a sequence sorted ascending by guesses, after its equals
RECURSIVE InsertGroup(_, _)
InsertGroup(sorted, g) ==
    IF sorted = <<>> THEN <<g>>
    ELSE IF g.guesses < Head(sorted).guesses THEN <<g>> \o sorted
    ELSE <<Head(sorted)>> \o InsertGroup(Tail(sorted), g)

\* the groups left in the insertion order of the Map
SortGroupsUnsorted(groups, k, sorted) == groups

\* .sort((a, b) => a.guesses - b.guesses), a stable sort
RECURSIVE SortGroups(_, _, _)
SortGroups(groups, k, sorted) ==
    IF k > Len(groups) THEN sorted
    ELSE SortGroups(groups, k + 1, InsertGroup(sorted, groups[k]))

getDayLeaderboardsMulti(list, wordleDay) ==
    LET Keep(result) == result.wordleDay = wordleDay /\ result.guesses # Failed
    IN  SortGroups(GroupFrom(SelectSeq(list, Keep), 1, <<>>), 1, <<>>)

\* ----------------------------------------------------------- getAverageTime

\* the first value, whatever the second
MinFirst(a, b) == a

Min(a, b) == IF a < b THEN a ELSE b

RECURSIVE SumSeq(_, _)
SumSeq(seq, k) == IF k > Len(seq) THEN 0 ELSE seq[k] + SumSeq(seq, k + 1)

\* avg is avgNum / avgDen and std is the square root of varNum / varDen
getAverageTime(list, playerId) ==
    LET Own(result) == result.playerId = playerId
        playerResults == SelectSeq(list, Own)
        n == Len(playerResults)
        values == [i \in 1..n |->
                      Min(playerResults[i].secondsSinceMidnight, SecondsInDay - 1)]
        total == SumSeq(values, 1)
        squares == [i \in 1..n |-> (n * values[i] - total) * (n * values[i] - total)]
    IN  IF n = 0
        THEN [avgNum |-> 0, avgDen |-> 1, varNum |-> 0, varDen |-> 1]
        ELSE [avgNum |-> total, avgDen |-> n,
              varNum |-> SumSeq(squares, 1), varDen |-> n * n * n]

\* ------------------------------------------------------------------ storage

Triple(channelId, result) == <<channelId, result.playerId, result.wordleDay>>

RowTriple(row) == <<row.channelId, row.playerId, row.wordleDay>>

\* the row saveSubmission inserts (storage.ts:22-30)
RowOf(channelId, result) ==
    [channelId |-> channelId, playerId |-> result.playerId,
     wordleDay |-> result.wordleDay, guesses |-> result.guesses,
     secondsSinceMidnight |-> result.secondsSinceMidnight]

\* the WordleResult getChannelSubmissions makes of a row (storage.ts:47-55)
ResultOf(row) ==
    [playerId |-> row.playerId, wordleDay |-> row.wordleDay,
     guesses |-> row.guesses, secondsSinceMidnight |-> row.secondsSinceMidnight]

\* the table without its unique index
UniqueViolationNever(table, row) == FALSE

\* the unique index submissions_channel_player_puzzle_idx rejects the insert
UniqueViolation(table, row) == \E old \in table : RowTriple(old) = RowTriple(row)

\* the error code of the insert: 23505 is PostgreSQL's unique_violation
InsertErrorCode(table, row) == IF UniqueViolation(table, row) THEN "23505" ELSE "none"

\* another error code taken for the unique violation
isUniqueViolationOtherCode(code) == code = "23503"

\* isUniqueViolation (storage.ts:91-97)
isUniqueViolation(code) == code = "23505"

\* how saveSubmission ends: "ok", or the error it throws
SaveOutcome(configured, table, channelId, result) ==
    IF ~configured THEN "DatabaseNotConfiguredError"
    ELSE LET code == InsertErrorCode(table, RowOf(channelId, result))
         IN  IF code = "none" THEN "ok"
             ELSE IF isUniqueViolation(code) THEN "DuplicateSubmissionError"
             ELSE "error"

\* a save that replaces the rows of the table
SaveTableReplacing(configured, table, channelId, result) == {RowOf(channelId, result)}

\* the table after saveSubmission
SaveTable(configured, table, channelId, result) ==
    IF SaveOutcome(configured, table, channelId, result) = "ok"
    THEN table \cup {RowOf(channelId, result)}
    ELSE table

RECURSIVE Orders(_)
Orders(S) ==
    IF S = {} THEN {<<>>}
    ELSE UNION {{<<x>> \o q : q \in Orders(S \ {x})} : x \in S}

\* what getChannelSubmissions may return: the channel's rows ordered by
\* wordleDay, rows of one wordleDay in any order
ChannelReads(table, channelId) ==
    LET rows == {ResultOf(row) : row \in {r \in table : r.channelId = channelId}}
    IN  {q \in Orders(rows) :
            \A i \in 1..Len(q) : \A j \in 1..Len(q) :
                i < j => q[i].wordleDay <= q[j].wordleDay}

\* ------------------------------------------------------------------ parser

\* A message text is a sequence of symbols: single characters, and the words
\* "Wordle", "wordle", "hello", "ping" and "react", each kept as one symbol.
\* "#" stands for one coloured square of a grid row.

\* \s
Whitespace == {" ", "\n"}

\* \d
DigitChars == {"0", "1", "2", "3", "4", "5", "6", "7", "8", "9"}

DigitValue(c) ==
    CASE c = "0" -> 0 [] c = "1" -> 1 [] c = "2" -> 2 [] c = "3" -> 3
      [] c = "4" -> 4 [] c = "5" -> 5 [] c = "6" -> 6 [] c = "7" -> 7
      [] c = "8" -> 8 [] c = "9" -> 9

\* the literal Wordle under the i flag of WORDLE_REGEX
WordleWords == {"Wordle", "wordle"}

\* X under the i flag
GuessChars == DigitChars \cup {"X", "x"}

\* the text with its commas left in
KeepCommas(text) == text

\* message.replace(/,/g, '') (part_000:19)
RemoveCommas(text) ==
    LET NotComma(c) == c # "," IN SelectSeq(text, NotComma)

\* the index after the longest run of symbols of a class that starts at i
RECURSIVE RunEnd(_, _, _)
RunEnd(text, i, class) ==
    IF i <= Len(text) /\ text[i] \in class THEN RunEnd(text, i + 1, class) ELSE i

NoMatch == [matched |-> FALSE, number |-> <<>>, guessesRaw |-> "", star |-> "", rest |-> <<>>]

\* Wordle[\s]+(\d+)[\s]+(X|\d)\/6(\*?)([\s\S]*) matched with Wordle at index p;
\* the runs of \s and \d are disjoint classes, so each run is the longest one
MatchAt(text, p) ==
    LET a == p + 1
        b == RunEnd(text, a, Whitespace)
        c == RunEnd(text, b, DigitChars)
        d == RunEnd(text, c, Whitespace)
        hasStar == d + 3 <= Len(text) /\ text[d + 3] = "*"
        restFrom == IF hasStar THEN d + 4 ELSE d + 3
    IN  IF /\ text[p] \in WordleWords
           /\ b > a
           /\ c > b
           /\ d > c
           /\ d + 2 <= Len(text)
           /\ text[d] \in GuessChars
           /\ text[d + 1] = "/"
           /\ text[d + 2] = "6"
        THEN [matched |-> TRUE, number |-> SubSeq(text, b, c - 1),
              guessesRaw |-> text[d], star |-> IF hasStar THEN "*" ELSE "",
              rest |-> SubSeq(text, restFrom, Len(text))]
        ELSE NoMatch

\* sanitized.match(WORDLE_REGEX): the leading [\s\S]* is greedy, so the match
\* is the one of the last Wordle after which the rest of the pattern matches
RegexMatch(text) ==
    LET starts == {p \in 1..Len(text) : MatchAt(text, p).matched}
    IN  IF starts = {} THEN NoMatch
        ELSE MatchAt(text, CHOOSE p \in starts : \A q \in starts : q <= p)

\* Number.parseInt(digits, 10) of a string of digits
RECURSIVE ParseIntFrom(_, _, _)
ParseIntFrom(digits, k, acc) ==
    IF k > Len(digits) THEN acc
    ELSE ParseIntFrom(digits, k + 1, 10 * acc + DigitValue(digits[k]))

\* guessesRaw === 'X' ? -1 : Number.parseInt(guessesRaw, 10); parseInt of the
\* lower-case x is NaN
ParseGuesses(guessesRaw) ==
    IF guessesRaw = "X" THEN [nan |-> FALSE, value |-> Failed]
    ELSE IF guessesRaw \in DigitChars THEN [nan |-> FALSE, value |-> DigitValue(guessesRaw)]
    ELSE [nan |-> TRUE, value |-> 0]

\* String.prototype.trim
RECURSIVE TrimStart(_)
TrimStart(text) ==
    IF text # <<>> /\ Head(text) \in Whitespace THEN TrimStart(Tail(text)) ELSE text

RECURSIVE TrimEnd(_)
TrimEnd(text) ==
    IF text # <<>> /\ text[Len(text)] \in Whitespace
    THEN TrimEnd(SubSeq(text, 1, Len(text) - 1)) ELSE text

Trim(text) == TrimEnd(TrimStart(text))

\* grid.split('\n').filter((line) => line.trim().length > 0).length; seen says
\* that the line at hand has a symbol that is not whitespace
RECURSIVE NonBlankLines(_, _, _)
NonBlankLines(grid, k, seen) ==
    IF k > Len(grid) THEN (IF seen THEN 1 ELSE 0)
    ELSE IF grid[k] = "\n"
         THEN (IF seen THEN 1 ELSE 0) + NonBlankLines(grid, k + 1, FALSE)
    ELSE NonBlankLines(grid, k + 1, seen \/ grid[k] \notin Whitespace)

\* isValidResult without the comparison of the row count
isValidResultAnyRows(result) ==
    /\ ~result.guessesNaN
    /\ result.guesses >= -1
    /\ result.guesses <= 6
    /\ result.playerId # ""

\* isValidResult (part_000:49-66); a comparison with NaN is false, and
\* rows.length !== NaN is true
isValidResult(result) ==
    LET outOfRange == ~result.guessesNaN /\ (result.guesses < -1 \/ result.guesses > 6)
        expectedRows == IF result.guesses = -1 THEN 6 ELSE result.guesses
        rows == NonBlankLines(result.grid, 1, FALSE)
    IN  IF outOfRange THEN FALSE
        ELSE IF result.guessesNaN \/ rows # expectedRows THEN FALSE
        ELSE IF result.playerId = "" THEN FALSE
        ELSE TRUE

\* what parseWordleResult returns for null
NullResult ==
    [wordleDay |-> 0, guesses |-> 0, hardMode |-> FALSE, grid |-> <<>>,
     playerId |-> "", secondsSinceMidnight |-> 0]

\* parseWordleResult (part_000:18-47); seconds is secondsSinceMidnight(submittedAt)
parseWordleResult(message, playerId, seconds) ==
    LET match == RegexMatch(RemoveCommas(message))
        guesses == ParseGuesses(match.guessesRaw)
        result == [wordleDay |-> ParseIntFrom(match.number, 1, 0),
                   guesses |-> guesses.value, guessesNaN |-> guesses.nan,
                   hardMode |-> (match.star = "*"), grid |-> Trim(match.rest),
                   playerId |-> playerId, secondsSinceMidnight |-> seconds]
    IN  IF ~match.matched THEN NullResult
        ELSE IF isValidResult(result)
             THEN [wordleDay |-> result.wordleDay, guesses |-> result.guesses,
                   hardMode |-> result.hardMode, grid |-> result.grid,
                   playerId |-> playerId, secondsSinceMidnight |-> seconds]
        ELSE NullResult

\* ----------------------------------------------- the submission handler

Message(kind, detail) == [kind |-> kind, detail |-> detail]

\* 1000 * 60 * 60 * 24 (part_000:10)
MsPerDay == 1000 * 60 * 60 * 24

\* getWordleDay (part_000:8-12); sinceFirst is reference.getTime() -
\* FIRST_WORDLE_DATE_UTC, and \div rounds down as Math.floor does
getWordleDay(clk) == (clk.sinceFirst \div MsPerDay) + 1

\* the clock at hour:minute UTC of the day of puzzle index today
ClockAt(today, dayOfWeek, hour, minute) ==
    [today |-> today, sinceFirst |-> (today - 1) * MsPerDay + (hour * 60 + minute) * 60000,
     dayOfWeek |-> dayOfWeek, hour |-> hour, minute |-> minute]

\* the check without Math.abs
clampWordleDayOneSided(wordleDay, clk) ==
    getWordleDay(clk) - wordleDay <= ClampTolerance

\* clampWordleDay(wordleDay) with tolerance = 1 (part_000:68-71)
clampWordleDay(wordleDay, clk) ==
    LET diff == wordleDay - getWordleDay(clk)
    IN  (IF diff < 0 THEN -diff ELSE diff) <= ClampTolerance

\* getWordleDay(startOfWeek(now)): the puzzle index of the last Sunday
WeekStartDay(clk) == getWordleDay(clk) - clk.dayOfWeek

getWeeklyScoresNow(list, clk) == getWeeklyScoresDefault(list, WeekStartDay(clk))

getLocalDayOfWeek(clk) == clk.dayOfWeek

\* the 'after' list without the new submission
UpdatedResultsUnchanged(previousResults, result) == previousResults

\* const updatedResults = [...previousResults, result]
UpdatedResults(previousResults, result) == Append(previousResults, result)

DistinctPlayers(list) == Cardinality({list[i].playerId : i \in 1..Len(list)})

\* the messages maybeSendEarlyPodium sends (index.ts:672-721)
maybeSendEarlyPodium(settings, list, wordleDay) ==
    LET OfDay(entry) == entry.wordleDay = wordleDay
        todaysResults == SelectSeq(list, OfDay)
        podium == getDayLeaderboardsMulti(todaysResults, wordleDay)
    IN  IF ~settings.earlyPodium \/ settings.earlyPodiumThreshold <= 0 THEN <<>>
        ELSE IF DistinctPlayers(todaysResults) < settings.earlyPodiumThreshold THEN <<>>
        ELSE IF Len(podium) = 0 THEN <<>>
        ELSE <<Message("early_podium", <<wordleDay, podium>>)>>

\* the messages maybeNotifyTiming sends (index.ts:723-756); diff > std is
\* compared as diff > 0 and diff^2 > std^2, in integers
maybeNotifyTiming(settings, previousResults, result) ==
    LET Own(entry) == entry.playerId = result.playerId
        personalHistory == SelectSeq(previousResults, Own)
        t == getAverageTime(previousResults, result.playerId)
        diffNum == result.secondsSinceMidnight * t.avgDen - t.avgNum
        beyond == diffNum * diffNum * t.varDen > t.varNum * t.avgDen * t.avgDen
    IN  IF ~settings.notifyTiming THEN <<>>
        ELSE IF Len(personalHistory) = 0 THEN <<>>
        ELSE IF t.varNum = 0 THEN <<>>
        ELSE IF diffNum > 0 /\ beyond
             THEN <<Message("running_late", <<result.playerId>>)>>
        ELSE IF diffNum < 0 /\ beyond
             THEN <<Message("early_bird", <<result.playerId>>)>>
        ELSE <<>>

\* index.ts:789-805
announceLeaderboardPasses(playerId, passed, category) ==
    IF Len(passed) = 0 THEN <<>>
    ELSE <<Message("just_passed", <<category, playerId, passed>>)>>

\* the messages maybeNotifyLeaderboards sends (index.ts:758-787)
maybeNotifyLeaderboards(settings, previousResults, updatedResults, playerId, clk) ==
    IF ~settings.notifyLeaderboard THEN <<>>
    ELSE announceLeaderboardPasses(playerId,
             PassedBy(getScores(previousResults), getScores(updatedResults), playerId),
             "overall score")
         \o announceLeaderboardPasses(playerId,
             PassedBy(getAverages(previousResults), getAverages(updatedResults), playerId),
             "average guesses")
         \o (IF getLocalDayOfWeek(clk) # 0
             THEN announceLeaderboardPasses(playerId,
                      PassedBy(getWeeklyScoresNow(previousResults, clk),
                               getWeeklyScoresNow(updatedResults, clk), playerId),
                      "weekly score")
             ELSE <<>>)
\* the early podium sent ahead of the acknowledgement
AfterSavePodiumFirst(settings, previousResults, updatedResults, result, clk) ==
        maybeSendEarlyPodium(settings, updatedResults, result.wordleDay)
        \o <<Message("logged", <<result.wordleDay, result.guesses, result.playerId>>)>>
        \o maybeNotifyTiming(settings, previousResults, result)
        \o maybeNotifyLeaderboards(settings, previousResults, updatedResults,
                                   result.playerId, clk)

\* what the try block sends once saveSubmission has returned (index.ts:331-341)
AfterSave(settings, previousResults, updatedResults, result, clk) ==
        <<Message("logged", <<result.wordleDay, result.guesses, result.playerId>>)>>
        \o maybeSendEarlyPodium(settings, updatedResults, result.wordleDay)
        \o maybeNotifyTiming(settings, previousResults, result)
        \o maybeNotifyLeaderboards(settings, previousResults, updatedResults,
                                   result.playerId, clk)

\* the catch block of handleWordleSubmission (index.ts:342-352): the reply,
\* or nothing when the error is thrown on
CatchReply(error) ==
    IF error = "DuplicateSubmissionError" THEN <<Message("already_submitted", <<>>)>>
    ELSE IF error = "DatabaseNotConfiguredError" THEN <<Message("not_configured", <<>>)>>
    ELSE <<>>

Rethrown(error) ==
    error \notin {"DuplicateSubmissionError", "DatabaseNotConfiguredError"}

Channels == {"c1", "c2"}
Handlers == {"h1", "h2"}

NoResult == [playerId |-> "", wordleDay |-> 0, guesses |-> 0, secondsSinceMidnight |-> 0]

Result(p, d, g, t) ==
    [playerId |-> p, wordleDay |-> d, guesses |-> g, secondsSinceMidnight |-> t]

\* the decimal digits of a natural number, as the share text prints them
RECURSIVE DecimalDigits(_)
DecimalDigits(n) ==
    LET last == CHOOSE c \in DigitChars : DigitValue(c) = n % 10
    IN  IF n < 10 THEN <<last>> ELSE Append(DecimalDigits(n \div 10), last)

\* n grid rows, each on a line of its own
RECURSIVE GridRows(_)
GridRows(n) == IF n = 0 THEN <<>> ELSE <<"\n", "#">> \o GridRows(n - 1)

\* the text the game shares for puzzle d solved in g guesses (X when failed),
\* with a grid of the given number of rows
ShareText(d, g, rows) ==
    <<"Wordle", " ">> \o DecimalDigits(d)
    \o <<" ", IF g = Failed THEN "X" ELSE CHOOSE c \in DigitChars : DigitValue(c) = g, "/", "6">>
    \o GridRows(rows)

\* a message event: the text a user posted in a channel, and the seconds
\* since midnight of its createdAt
Post(channelId, userId, text, seconds) ==
    [channelId |-> channelId, userId |-> userId, text |-> text, seconds |-> seconds]

\* the share of a result, posted by its player
Share(channelId, p, d, g, t) ==
    Post(channelId, p, ShareText(d, g, IF g = Failed THEN 6 ELSE g), t)

\* the messages that can arrive; T is today's puzzle index
Inbox(T) ==
    {Share("c1", "A", T, 3, 100),
     Share("c1", "A", T, 4, 100),
     Share("c1", "B", T, 3, 100),
     Share("c1", "B", T, Failed, 100),
     Share("c1", "A", T - 1, 4, 0),
     Share("c1", "A", T + 1, 3, 400),
     Share("c1", "A", T + 2, 3, 100),
     Share("c2", "A", T, 3, 100),
     Post("c1", "A", ShareText(T, 3, 2), 100),
     Post("c1", "B", ShareText(T, Failed, 5), 100),
     Post("c1", "", ShareText(T, 3, 3), 100),
     Post("c1", "A", <<"hello">>, 100)}

\* the fields of a parsed WordleResult that the handler, the store and the
\* statistics read; hardMode and grid are read by none of them
WordleResultOf(parsed) ==
    Result(parsed.playerId, parsed.wordleDay, parsed.guesses, parsed.secondsSinceMidnight)

\* content.includes(word)
Includes(text, word) == \E i \in 1..Len(text) : text[i] = word

\* bot.onMessage when the text is no Wordle result (index.ts:245-257)
OtherReplies(text) ==
    IF Includes(text, "hello") THEN <<Message("hello", <<>>)>>
    ELSE IF Includes(text, "ping") THEN <<Message("pong", <<>>)>>
    ELSE IF Includes(text, "react") THEN <<Message("reaction", <<>>)>>
    ELSE <<>>

Settings(early, threshold, leaderboard, timing) ==
    [earlyPodium |-> early, earlyPodiumThreshold |-> threshold,
     notifyLeaderboard |-> leaderboard, notifyTiming |-> timing,
     digestHour |-> 19, digestMinute |-> 0]

\* DEFAULT_CHAT_SETTINGS (podium.ts:345-352)
DefaultSettings == Settings(TRUE, 5, TRUE, TRUE)

SettingsChoices ==
    {DefaultSettings, Settings(TRUE, 2, TRUE, TRUE), Settings(TRUE, 1, TRUE, TRUE),
     Settings(FALSE, 2, FALSE, FALSE)}

IdleHandler ==
    [pc |-> "idle", channelId |-> "", userId |-> "", text |-> <<>>,
     result |-> NoResult, previousResults |-> <<>>,
     updatedResults |-> <<>>, settings |-> DefaultSettings, outcome |-> "none",
     sent |-> <<>>]

CountOf(counts, key) == IF key \in DOMAIN counts THEN counts[key] ELSE 0

CountUp(counts, key) ==
    [k \in DOMAIN counts \cup {key} |-> CountOf(counts, k) + (IF k = key THEN 1 ELSE 0)]

\* the count of a key raised once for every message of the kind
RECURSIVE CountSent(_, _, _, _, _)
CountSent(counts, key, messages, kind, k) ==
    IF k > Len(messages) THEN counts
    ELSE CountSent(IF messages[k].kind = kind THEN CountUp(counts, key) ELSE counts,
                   key, messages, kind, k + 1)

LogOf(log, triple) == IF triple \in DOMAIN log THEN log[triple] ELSE [ok |-> 0, rejected |-> 0]

LogSave(log, triple, outcome) ==
    [t \in DOMAIN log \cup {triple} |->
        IF t # triple THEN log[t]
        ELSE [ok |-> LogOf(log, t).ok + (IF outcome = "ok" THEN 1 ELSE 0),
              rejected |-> LogOf(log, t).rejected
                           + (IF outcome = "DuplicateSubmissionError" THEN 1 ELSE 0)]]

StatsIdle ==
    /\ results = <<>>
    /\ applied = "none"
    /\ args = <<>>
    /\ output = <<>>
    /\ oldBoard = EmptyBoard
    /\ newBoard = EmptyBoard

\* no slash command handled yet
NoCommand == [name |-> "none", channelId |-> "", args |-> <<>>, sent |-> <<>>, threw |-> FALSE]

HandlersIdle ==
    /\ command = NoCommand
    /\ handlers = [h \in Handlers |-> IdleHandler]
    /\ received = 0
    /\ saveLog = <<>>
    /\ accepted = {}
    /\ podiumsSent = <<>>
    /\ acksSent = <<>>

DigestIdle ==
    /\ digests = <<>>
    /\ digestSent = <<>>
    /\ crashed = FALSE
    /\ overlapped = FALSE

Init ==
    /\ StatsIdle
    /\ HandlersIdle
    /\ DigestIdle
    /\ dbConfigured \in BOOLEAN
    /\ submissions = {}
    /\ \E cfg \in SettingsChoices : chatSettings = [c \in Channels |-> cfg]
    /\ dailyDigestLog = {}
    /\ \E dow \in {0, 2} :
          clock = ClockAt(StartDay, dow, 12, 0)

\* bot.onMessage (index.ts:237-258) up to the first await of
\* handleWordleSubmission (index.ts:320-324)
Receive(h) ==
    /\ handlers[h].pc = "idle"
    /\ received < MaxMessages
    /\ received' = received + 1
    /\ \E m \in Inbox(clock.today) :
          LET wordleResult == parseWordleResult(m.text, m.userId, m.seconds)
              me == [IdleHandler EXCEPT !.channelId = m.channelId,
                                        !.userId = m.userId, !.text = m.text]
          IN  handlers' = [handlers EXCEPT ![h] =
                  IF wordleResult = NullResult
                  THEN [me EXCEPT !.pc = "done", !.sent = OtherReplies(m.text)]
                  ELSE IF ~clampWordleDay(wordleResult.wordleDay, clock)
                  THEN [me EXCEPT !.pc = "done",
                                  !.result = WordleResultOf(wordleResult),
                                  !.sent = <<Message("out_of_date", <<>>)>>]
                  ELSE [me EXCEPT !.pc = "read",
                                  !.result = WordleResultOf(wordleResult)]]
    /\ UNCHANGED <<sentVars, commandVars, statVars, storeVars, saveLog, accepted, digestVars>>

\* const previousResults = await getChannelSubmissions(channelId) (index.ts:326)
ReadPrevious(h) ==
    /\ handlers[h].pc = "read"
    /\ IF ~dbConfigured
       THEN handlers' = [handlers EXCEPT ![h].pc = "threw",
                                         ![h].outcome = "DatabaseNotConfiguredError"]
       ELSE \E list \in ChannelReads(submissions, handlers[h].channelId) :
               handlers' = [handlers EXCEPT ![h].pc = "settings",
                                            ![h].previousResults = list]
    /\ UNCHANGED <<sentVars, commandVars, statVars, storeVars, received, saveLog, accepted, digestVars>>

\* const settings = await getChatSettings(channelId) (index.ts:327)
ReadSettings(h) ==
    /\ handlers[h].pc = "settings"
    /\ handlers' = [handlers EXCEPT ![h].pc = "save",
                                    ![h].settings = chatSettings[handlers[h].channelId]]
    /\ UNCHANGED <<sentVars, commandVars, statVars, storeVars, received, saveLog, accepted, digestVars>>

\* await saveSubmission(channelId, result) and, when it throws, the catch
\* block (index.ts:330, 342-352)
Save(h) ==
    /\ handlers[h].pc = "save"
    /\ LET me == handlers[h]
           outcome == SaveOutcome(dbConfigured, submissions, me.channelId, me.result)
       IN  /\ submissions' = SaveTable(dbConfigured, submissions, me.channelId, me.result)
           /\ saveLog' = LogSave(saveLog, Triple(me.channelId, me.result), outcome)
           /\ accepted' = IF outcome = "ok"
                          THEN accepted \cup {RowOf(me.channelId, me.result)}
                          ELSE accepted
           /\ handlers' = [handlers EXCEPT
                  ![h].outcome = outcome,
                  ![h].pc = IF outcome = "ok" THEN "saved"
                            ELSE IF Rethrown(outcome) THEN "threw" ELSE "done",
                  ![h].sent = IF outcome = "ok" THEN @ ELSE @ \o CatchReply(outcome)]
    /\ UNCHANGED <<sentVars, commandVars, statVars, dbConfigured, chatSettings, dailyDigestLog, clock,
                   received, digestVars>>

\* the rest of the try block (index.ts:331-341)
Notify(h) ==
    /\ handlers[h].pc = "saved"
    /\ LET me == handlers[h]
           updatedResults == UpdatedResults(me.previousResults, me.result)
       IN  handlers' = [handlers EXCEPT
               ![h].pc = "done",
               ![h].updatedResults = updatedResults,
               ![h].sent = @ \o AfterSave(me.settings, me.previousResults,
                                          updatedResults, me.result, clock)]
    /\ LET me == handlers[h]
           messages == AfterSave(me.settings, me.previousResults,
                                 UpdatedResults(me.previousResults, me.result),
                                 me.result, clock)
       IN  /\ podiumsSent' = CountSent(podiumsSent, <<me.channelId, me.result.wordleDay>>,
                                       messages, "early_podium", 1)
           /\ acksSent' = CountSent(acksSent, Triple(me.channelId, me.result),
                                    messages, "logged", 1)
    /\ UNCHANGED <<commandVars, statVars, storeVars, received, saveLog, accepted, digestVars>>

\* the webhook invocation is over
Finish(h) ==
    /\ handlers[h].pc \in {"done", "threw"}
    /\ handlers' = [handlers EXCEPT ![h] = IdleHandler]
    /\ UNCHANGED <<sentVars, commandVars, statVars, storeVars, received, saveLog, accepted, digestVars>>

Next ==
    \E h \in Handlers :
        \/ Receive(h)
        \/ ReadPrevious(h)
        \/ ReadSettings(h)
        \/ Save(h)
        \/ Notify(h)
        \/ Finish(h)

Spec == Init /\ [][Next]_vars

\* ---------------------------------------------------------- runDailyDigest

Runs == 1..MaxRuns

\* the digest time reached on the hour alone
hasReachedDigestTimeHourOnly(local, digest) == local.hour >= digest.hour

\* hasReachedDigestTime (index.ts:874-878)
hasReachedDigestTime(local, digest) ==
    \/ local.hour > digest.hour
    \/ local.hour = digest.hour /\ local.minute >= digest.minute

\* parseTime(settings.digestTime)
DigestTimeParts(settings) == [hour |-> settings.digestHour, minute |-> settings.digestMinute]

\* getWordleDayForZone(settings.timezone, reference)
TodayWordleDay(clk) == clk.today

\* getWordleDayForZone(settings.timezone, reference - MS_PER_DAY)
YesterdayWordleDay(clk) == clk.today - 1

\* the Set targetDays in insertion order (index.ts:370-376)
TargetDays(settings, clk) ==
    (IF hasReachedDigestTime(clk, DigestTimeParts(settings))
     THEN <<TodayWordleDay(clk)>> ELSE <<>>)
    \o (IF TodayWordleDay(clk) > YesterdayWordleDay(clk)
        THEN <<YesterdayWordleDay(clk)>> ELSE <<>>)

\* a sent log that is never found to hold a pair
hasPodiumBeenSentNever(log, channelId, wordleDay) == FALSE

\* hasPodiumBeenSent (storage.ts:74-82)
hasPodiumBeenSent(log, channelId, wordleDay) == <<channelId, wordleDay>> \in log

\* markPodiumSent: insert ... onConflictDoNothing (storage.ts:66-72)
markPodiumSent(log, channelId, wordleDay) == log \cup {<<channelId, wordleDay>>}

\* results.some((result) => result.wordleDay === targetDay)
SomeResultFor(list, targetDay) == \E i \in 1..Len(list) : list[i].wordleDay = targetDay

\* getActiveChannels: the distinct channel ids of table submissions
ActiveChannels(table) == {row.channelId : row \in table}

IdleRun ==
    [pc |-> "idle", channels |-> <<>>, targetDays |-> <<>>, results |-> <<>>,
     sentCount |-> 0]

Active(run) == run.pc \notin {"idle", "done", "failed", "crashed"}

\* the run with the target day at hand dropped; the channel is dropped with
\* its last target day, and the run returns after its last channel
Continue(run) ==
    IF Len(run.targetDays) > 1
    THEN [run EXCEPT !.targetDays = Tail(@), !.pc = "day"]
    ELSE IF Len(run.channels) > 1
    THEN [run EXCEPT !.targetDays = <<>>, !.channels = Tail(@), !.pc = "channel"]
    ELSE [run EXCEPT !.targetDays = <<>>, !.channels = <<>>, !.pc = "done"]

\* POST /digest calls runDailyDigest (index.ts:270-278, 355)
StartDigest(r) ==
    /\ digests[r].pc = "idle"
    /\ digests' = [digests EXCEPT ![r].pc = "start"]
    /\ overlapped' = (overlapped \/ \E o \in Runs \ {r} : Active(digests[o]))
    /\ UNCHANGED <<sentVars, commandVars, statVars, storeVars, handlerVars, digestSent, crashed>>

\* const channels = await getActiveChannels() (index.ts:356)
GetActiveChannels(r) ==
    /\ digests[r].pc = "start"
    /\ IF ~dbConfigured
       THEN digests' = [digests EXCEPT ![r].pc = "failed"]
       ELSE \E order \in Orders(ActiveChannels(submissions)) :
               digests' = [digests EXCEPT
                   ![r].channels = order,
                   ![r].pc = IF order = <<>> THEN "done" ELSE "channel"]
    /\ UNCHANGED <<sentVars, commandVars, statVars, storeVars, handlerVars, digestSent, crashed, overlapped>>

\* const settings = await getChatSettings(channelId) and the target days of
\* the channel (index.ts:360-380)
GetDigestSettings(r) ==
    /\ digests[r].pc = "channel"
    /\ LET run == digests[r]
           days == TargetDays(chatSettings[Head(run.channels)], clock)
       IN  digests' = [digests EXCEPT ![r] =
               IF days = <<>> THEN Continue(run)
               ELSE [run EXCEPT !.targetDays = days, !.pc = "results"]]
    /\ UNCHANGED <<sentVars, commandVars, statVars, storeVars, handlerVars, digestSent, crashed, overlapped>>

\* const results = await getChannelSubmissions(channelId) (index.ts:382)
GetDigestResults(r) ==
    /\ digests[r].pc = "results"
    /\ \E list \in ChannelReads(submissions, Head(digests[r].channels)) :
          digests' = [digests EXCEPT ![r].results = list, ![r].pc = "day"]
    /\ UNCHANGED <<sentVars, commandVars, statVars, storeVars, handlerVars, digestSent, crashed, overlapped>>

\* the checks of one target day, up to the message being built
\* (index.ts:385-438); the averages section is never empty when the day has
\* a submission, so sections.length === 0 does not occur
CheckTargetDay(r) ==
    /\ digests[r].pc = "day"
    /\ LET run == digests[r]
           targetDay == Head(run.targetDays)
       IN  digests' = [digests EXCEPT ![r] =
               IF targetDay <= 0 THEN Continue(run)
               ELSE IF hasPodiumBeenSent(dailyDigestLog, Head(run.channels), targetDay)
                    THEN Continue(run)
               ELSE IF ~SomeResultFor(run.results, targetDay) THEN Continue(run)
               ELSE [run EXCEPT !.pc = "send"]]
    /\ UNCHANGED <<sentVars, commandVars, statVars, storeVars, handlerVars, digestSent, crashed, overlapped>>

\* await bot.sendMessage(channelId, message, ...) (index.ts:439)
SendDigest(r) ==
    /\ digests[r].pc = "send"
    /\ digestSent' = CountUp(digestSent,
                             <<Head(digests[r].channels), Head(digests[r].targetDays)>>)
    /\ digests' = [digests EXCEPT ![r].pc = "mark"]
    /\ UNCHANGED <<sentVars, commandVars, statVars, storeVars, handlerVars, crashed, overlapped>>

\* await markPodiumSent(channelId, targetDay); sentCount++ (index.ts:440-441)
MarkDigestSent(r) ==
    /\ digests[r].pc = "mark"
    /\ dailyDigestLog' = markPodiumSent(dailyDigestLog, Head(digests[r].channels),
                                        Head(digests[r].targetDays))
    /\ digests' = [digests EXCEPT
           ![r] = Continue([digests[r] EXCEPT !.sentCount = @ + 1])]
    /\ UNCHANGED <<sentVars, commandVars, statVars, dbConfigured, submissions, chatSettings, clock,
                   handlerVars, digestSent, crashed, overlapped>>

\* the process stops: every invocation in flight is lost, the tables stay
Restart ==
    /\ \E r \in Runs : Active(digests[r])
    /\ digests' = [r \in Runs |->
           IF Active(digests[r]) THEN [digests[r] EXCEPT !.pc = "crashed"]
           ELSE digests[r]]
    /\ crashed' = TRUE
    /\ UNCHANGED <<sentVars, commandVars, statVars, storeVars, handlerVars, digestSent, overlapped>>

\* tables a channel can have reached when the digest runs
DigestStores(T) ==
    {{},
     {RowOf("c1", Result("A", T, 3, 100))},
     {RowOf("c1", Result("A", T, 3, 100)), RowOf("c1", Result("B", T - 1, Failed, 100))},
     {RowOf("c1", Result("A", T - 1, 4, 0)), RowOf("c2", Result("A", T, 3, 100))}}
\* the default digest time 19:00 and one set with /config set digest_time 19:30
DigestSettingsChoices ==
    {DefaultSettings, [DefaultSettings EXCEPT !.digestMinute = 30]}

\* local times of the reference instant, before, at and after those times
DigestClockTimes == {<<18, 45>>, <<19, 0>>, <<19, 45>>, <<20, 0>>}

InitDigest ==
    /\ StatsIdle
    /\ HandlersIdle
    /\ digests = [r \in Runs |-> IdleRun]
    /\ digestSent = <<>>
    /\ crashed = FALSE
    /\ overlapped = FALSE
    /\ dbConfigured \in BOOLEAN
    /\ submissions \in DigestStores(StartDay)
    /\ \E cfg \in DigestSettingsChoices : chatSettings = [c \in Channels |-> cfg]
    /\ dailyDigestLog = {}
    /\ \E t \in DigestClockTimes :
          clock = ClockAt(StartDay, 0, t[1], t[2])

NextDigest ==
    \/ \E r \in Runs :
          \/ StartDigest(r)
          \/ GetActiveChannels(r)
          \/ GetDigestSettings(r)
          \/ GetDigestResults(r)
          \/ CheckTargetDay(r)
          \/ SendDigest(r)
          \/ MarkDigestSent(r)
    \/ Restart

SpecDigest == InitDigest /\ [][NextDigest]_vars

\* ------------------------------------------------------- slash commands

NotConfiguredReply == <<Message("not_configured", <<>>)>>

\* a loader that sends nothing when it has no results
loadChannelResultsSilent(channelId) ==
    {[loaded |-> FALSE, results |-> <<>>, sent |-> <<>>]}

\* loadChannelResults (index.ts:308-318): what it can return, with what it
\* sent; results is null when loaded is FALSE
loadChannelResults(channelId) ==
    IF ~dbConfigured
    THEN {[loaded |-> FALSE, results |-> <<>>, sent |-> NotConfiguredReply]}
    ELSE {[loaded |-> TRUE, results |-> list, sent |-> <<>>] :
             list \in ChannelReads(submissions, channelId)}

\* respondWithLeaderboard (index.ts:282-306) once the results are loaded; the
\* section lists the entries of the leaderboard by descending value
LeaderboardReply(label, leaderboard) ==
    IF Len(leaderboard.keys) = 0 THEN <<Message("no_data", <<label>>)>>
    ELSE <<Message("leaderboard", <<label, leaderboard>>)>>

\* compute is the statistics function, as a function of the list it is given
respondWithLeaderboard(channelId, label, compute) ==
    \E load \in loadChannelResults(channelId) :
        command' = [name |-> label, channelId |-> channelId, args |-> <<>>,
                    threw |-> FALSE,
                    sent |-> IF ~load.loaded THEN load.sent
                             ELSE LeaderboardReply(label, compute[load.results])]

\* bot.onSlashCommand('scores') (index.ts:168-170)
ScoresCommand(channelId) ==
    /\ respondWithLeaderboard(channelId, "scores",
           [list \in ChannelReads(submissions, channelId) |-> getScores(list)])
    /\ UNCHANGED <<sentVars, statVars, storeVars, handlerVars, digestVars>>

\* bot.onSlashCommand('averages') (index.ts:172-174)
AveragesCommand(channelId) ==
    /\ respondWithLeaderboard(channelId, "averages",
           [list \in ChannelReads(submissions, channelId) |-> getAverages(list)])
    /\ UNCHANGED <<sentVars, statVars, storeVars, handlerVars, digestVars>>

\* bot.onSlashCommand('weekly') (index.ts:176-178)
WeeklyCommand(channelId) ==
    /\ respondWithLeaderboard(channelId, "weekly scores",
           [list \in ChannelReads(submissions, channelId) |-> getWeeklyScoresNow(list, clock)])
    /\ UNCHANGED <<sentVars, statVars, storeVars, handlerVars, digestVars>>

\* Number.parseInt(arg, 10) of a command argument: the value of its leading
\* digits, NaN when it has none
ParseIntArg(arg) ==
    LET end == RunEnd(arg, 1, DigitChars)
    IN  IF end = 1 THEN [nan |-> TRUE, value |-> 0]
        ELSE [nan |-> FALSE, value |-> ParseIntFrom(SubSeq(arg, 1, end - 1), 1, 0)]

\* args[0] ? Number.parseInt(args[0], 10) : getWordleDay() (index.ts:181)
PodiumDayArg(arguments) ==
    IF Len(arguments) = 0 \/ arguments[1] = <<>>
    THEN [nan |-> FALSE, value |-> getWordleDay(clock)]
    ELSE ParseIntArg(arguments[1])

\* the arguments /podium is called with: none, no number, yesterday's index
PodiumArgs == {<<>>, <<<<"a">>>>, <<DecimalDigits(StartDay - 1)>>}

\* bot.onSlashCommand('podium') (index.ts:180-226)
PodiumCommand(channelId) ==
    /\ \E arguments \in PodiumArgs :
          LET dayArg == PodiumDayArg(arguments)
              me == [name |-> "podium", channelId |-> channelId, args |-> arguments,
                     threw |-> FALSE, sent |-> <<>>]
          IN  IF dayArg.nan
              THEN command' = [me EXCEPT !.sent = <<Message("invalid_day", <<>>)>>]
              ELSE \E load \in loadChannelResults(channelId) :
                      LET podium == getDayLeaderboardsMulti(load.results, dayArg.value)
                      IN  command' = [me EXCEPT !.sent =
                              IF ~load.loaded THEN load.sent
                              ELSE IF Len(podium) = 0
                              THEN <<Message("no_submissions", <<dayArg.value>>)>>
                              ELSE <<Message("podium", <<dayArg.value, podium>>)>>]
    /\ UNCHANGED <<sentVars, statVars, storeVars, handlerVars, digestVars>>

\* the patches /config set hands to updateChatSettings
ConfigPatches == {[earlyPodiumThreshold |-> 2], [notifyTiming |-> FALSE]}

\* updateChatSettings (podium.ts:373-398): the row with the patch applied
PatchSettings(settings, patch) ==
    [key \in DOMAIN settings |->
        IF key \in DOMAIN patch THEN patch[key] ELSE settings[key]]

\* bot.onSlashCommand('config') with 'set <option> <value>' (index.ts:122-166)
ConfigSetCommand(channelId) ==
    /\ \E patch \in ConfigPatches :
          LET me == [name |-> "config", channelId |-> channelId, args |-> <<"set", patch>>,
                     threw |-> FALSE, sent |-> <<>>]
              updated == PatchSettings(chatSettings[channelId], patch)
          IN  IF ~dbConfigured
              THEN /\ command' = [me EXCEPT !.sent = NotConfiguredReply]
                   /\ UNCHANGED chatSettings
              ELSE /\ chatSettings' = [chatSettings EXCEPT ![channelId] = updated]
                   /\ command' = [me EXCEPT !.sent = <<Message("updated", <<updated>>)>>]
    /\ UNCHANGED <<sentVars, statVars, dbConfigured, submissions, dailyDigestLog, clock,
                   handlerVars, digestVars>>

\* ------------------------------------------- the bot with all its entry points:
\* one message, one digest run, slash commands in one channel

InitBot ==
    /\ StatsIdle
    /\ HandlersIdle
    /\ digests = [r \in Runs |-> IdleRun]
    /\ digestSent = <<>>
    /\ crashed = FALSE
    /\ overlapped = FALSE
    /\ dbConfigured \in BOOLEAN
    /\ submissions \in DigestStores(StartDay)
    /\ chatSettings = [c \in Channels |-> DefaultSettings]
    /\ dailyDigestLog = {}
    /\ clock = ClockAt(StartDay, 2, 19, 0)

NextBot ==
    \/ received = 0 /\ Receive("h1")
    \/ ReadPrevious("h1")
    \/ ReadSettings("h1")
    \/ Save("h1")
    \/ Notify("h1")
    \/ Finish("h1")
    \/ StartDigest(1)
    \/ GetActiveChannels(1)
    \/ GetDigestSettings(1)
    \/ GetDigestResults(1)
    \/ CheckTargetDay(1)
    \/ SendDigest(1)
    \/ MarkDigestSent(1)
    \/ ScoresCommand("c1")
    \/ AveragesCommand("c1")
    \/ WeeklyCommand("c1")
    \/ PodiumCommand("c1")
    \/ ConfigSetCommand("c1")

SpecBot == InitBot /\ [][NextBot]_vars

\* the system at rest, for the specifications of the pure functions
SystemIdle ==
    /\ HandlersIdle
    /\ DigestIdle
    /\ dbConfigured = TRUE
    /\ submissions = {}
    /\ chatSettings = [c \in Channels |-> DefaultSettings]
    /\ dailyDigestLog = {}
    /\ clock = ClockAt(StartDay, 0, 12, 0)

\* ------------------------------------------------- the statistics functions,
\* applied to inputs drawn from bounded sets

RECURSIVE SeqsUpTo(_, _)
SeqsUpTo(S, n) ==
    IF n = 0 THEN {<<>>}
    ELSE LET shorter == SeqsUpTo(S, n - 1)
         IN  shorter \cup {Append(q, x) : q \in {r \in shorter : Len(r) = n - 1}, x \in S}

\* start indices and window sizes handed to getWeeklyScores
WeekStarts == {-5, -4, 1, 2, 3}
WindowSizes == {0, 1, 2}

InitStats ==
    /\ results \in SeqsUpTo(StatSubs, MaxLen)
    /\ applied = "none"
    /\ args = <<>>
    /\ output = <<>>
    /\ oldBoard = EmptyBoard
    /\ newBoard = EmptyBoard
    /\ SystemIdle

ApplyGetScores ==
    /\ applied = "none"
    /\ applied' = "getScores"
    /\ output' = getScores(results)
    /\ UNCHANGED <<sentVars, commandVars, results, args, oldBoard, newBoard, storeVars, handlerVars, digestVars>>

ApplyGetWeeklyScores ==
    /\ applied = "none"
    /\ \E s \in WeekStarts, w \in WindowSizes :
          /\ args' = <<s, w>>
          /\ output' = getWeeklyScores(results, s, w)
    /\ applied' = "getWeeklyScores"
    /\ UNCHANGED <<sentVars, commandVars, results, oldBoard, newBoard, storeVars, handlerVars, digestVars>>

ApplyGetWeeklyScoresDefault ==
    /\ applied = "none"
    /\ \E s \in WeekStarts :
          /\ args' = <<s>>
          /\ output' = getWeeklyScoresDefault(results, s)
    /\ applied' = "getWeeklyScoresDefault"
    /\ UNCHANGED <<sentVars, commandVars, results, oldBoard, newBoard, storeVars, handlerVars, digestVars>>

ApplyGetAverages ==
    /\ applied = "none"
    /\ applied' = "getAverages"
    /\ output' = getAverages(results)
    /\ UNCHANGED <<sentVars, commandVars, results, args, oldBoard, newBoard, storeVars, handlerVars, digestVars>>

\* puzzle indices handed to getDayLeaderboardsMulti
PodiumDays == StatDays \cup {0}

ApplyGetDayLeaderboardsMulti ==
    /\ applied = "none"
    /\ \E d \in PodiumDays :
          /\ args' = <<d>>
          /\ output' = getDayLeaderboardsMulti(results, d)
    /\ applied' = "getDayLeaderboardsMulti"
    /\ UNCHANGED <<sentVars, commandVars, results, oldBoard, newBoard, storeVars, handlerVars, digestVars>>

NextStats ==
    \/ ApplyGetScores
    \/ ApplyGetWeeklyScores
    \/ ApplyGetWeeklyScoresDefault
    \/ ApplyGetAverages
    \/ ApplyGetDayLeaderboardsMulti

SpecStats == InitStats /\ [][NextStats]_vars

\* ------------------------------------------------------ the parser, applied
\* to message texts drawn from a bounded set

\* the same rows after an empty line, ended by a line of blanks
SpacedGridRows(n) == <<"\n">> \o GridRows(n) \o <<"\n", " ">>

Grids == UNION {{GridRows(n), SpacedGridRows(n)} : n \in 0..MaxRows}

NumberTexts == {<<"3">>, <<"1", "5", "9", "9">>, <<"1", ",", "5", "9", "9">>, <<>>}

\* what a text can start with: nothing, a greeting, an earlier share
TextPrefixes ==
    {<<>>, <<"hello", " ">>, <<"Wordle", " ", "2", " ", "1", "/", "6", "\n", "#", "\n">>}

Texts ==
    {prefix \o word \o sep1 \o number \o sep2 \o <<guess>> \o slash \o star \o grid :
        prefix \in TextPrefixes,
        word \in {<<"Wordle">>, <<"wordle">>, <<>>},
        sep1 \in {<<" ">>, <<>>},
        number \in NumberTexts,
        sep2 \in {<<" ">>, <<>>},
        guess \in GuessChars,
        slash \in {<<"/", "6">>, <<"/">>},
        star \in {<<"*">>, <<>>},
        grid \in Grids}

\* the user ids a message can carry
UserIds == {"", "A"}

InitParse ==
    /\ args \in Texts \X UserIds
    /\ results = <<>>
    /\ applied = "none"
    /\ output = <<>>
    /\ oldBoard = EmptyBoard
    /\ newBoard = EmptyBoard
    /\ SystemIdle

ApplyParseWordleResult ==
    /\ applied = "none"
    /\ applied' = "parseWordleResult"
    /\ output' = parseWordleResult(args[1], args[2], 0)
    /\ UNCHANGED <<sentVars, commandVars, results, args, oldBoard, newBoard, storeVars, handlerVars, digestVars>>

NextParse == ApplyParseWordleResult

SpecParse == InitParse /\ [][NextParse]_vars

\* ------------------------------------------------ clampWordleDay, applied to
\* puzzle indices and reference instants drawn from bounded sets

\* instants at the start, just after the start and at the last millisecond
\* of a day, from before the first puzzle to after the day of the run
ReferenceInstants ==
    {k * MsPerDay + o : k \in (-2)..(StartDay + 2), o \in {0, 1, MsPerDay - 1}}

ClampDays == (-4)..(StartDay + 6)

InitClamp ==
    /\ args \in {<<d>> : d \in ClampDays}
    /\ results = <<>>
    /\ applied = "none"
    /\ output = <<>>
    /\ oldBoard = EmptyBoard
    /\ newBoard = EmptyBoard
    /\ HandlersIdle
    /\ DigestIdle
    /\ dbConfigured = TRUE
    /\ submissions = {}
    /\ chatSettings = [c \in Channels |-> DefaultSettings]
    /\ dailyDigestLog = {}
    /\ \E since \in ReferenceInstants :
          clock = [ClockAt(StartDay, 0, 12, 0) EXCEPT
                       !.sinceFirst = since, !.today = (since \div MsPerDay) + 1]

ApplyClampWordleDay ==
    /\ applied = "none"
    /\ applied' = "clampWordleDay"
    /\ output' = clampWordleDay(args[1], clock)
    /\ UNCHANGED <<sentVars, commandVars, results, args, oldBoard, newBoard, storeVars, handlerVars, digestVars>>

NextClamp == ApplyClampWordleDay

SpecClamp == InitClamp /\ [][NextClamp]_vars

\* ------------------------------------------------ getAverageTime, applied to
\* submission lists with times of day drawn from a bounded set

\* seconds since midnight: early, the last second of the day, and beyond it
TimeValues == {0, 100, SecondsInDay - 1, SecondsInDay}

TimeSubs ==
    [playerId : {"A", "B"}, wordleDay : {1}, guesses : {3},
     secondsSinceMidnight : TimeValues]

\* the lists in which a player with several submissions has early times
\* only, so that the sums of squares stay within 32-bit integers
TimeLists ==
    {list \in SeqsUpTo(TimeSubs, MaxLen) :
        \A i \in 1..Len(list) : \A j \in 1..Len(list) :
            (i # j /\ list[i].playerId = list[j].playerId) =>
                list[i].secondsSinceMidnight <= 100}

InitTime ==
    /\ results \in TimeLists
    /\ applied = "none"
    /\ args = <<>>
    /\ output = <<>>
    /\ oldBoard = EmptyBoard
    /\ newBoard = EmptyBoard
    /\ SystemIdle

ApplyGetAverageTime ==
    /\ applied = "none"
    /\ \E p \in Players :
          /\ args' = <<p>>
          /\ output' = getAverageTime(results, p)
    /\ applied' = "getAverageTime"
    /\ UNCHANGED <<sentVars, commandVars, results, oldBoard, newBoard, storeVars, handlerVars, digestVars>>

NextTime == ApplyGetAverageTime

SpecTime == InitTime /\ [][NextTime]_vars

\* leaderboards handed to getPlayersPassed
BoardValues == {2, 3, 4, 5}

RECURSIVE KeyOrders(_)
KeyOrders(S) ==
    IF S = {} THEN {<<>>}
    ELSE UNION {{<<x>> \o q : q \in KeyOrders(S \ {x})} : x \in S}

Boards ==
    UNION {{[keys |-> k, val |-> v] : k \in KeyOrders(P), v \in [P -> BoardValues]}
           : P \in SUBSET Players}

InitPassed ==
    /\ oldBoard \in Boards
    /\ newBoard \in Boards
    /\ results = <<>>
    /\ applied = "none"
    /\ args = <<>>
    /\ output = <<>>
    /\ SystemIdle

ApplyGetPlayersPassed ==
    /\ applied = "none"
    /\ applied' = "getPlayersPassed"
    /\ output' = getPlayersPassed(oldBoard, newBoard)
    /\ UNCHANGED <<sentVars, commandVars, results, args, oldBoard, newBoard, storeVars, handlerVars, digestVars>>

NextPassed == ApplyGetPlayersPassed

SpecPassed == InitPassed /\ [][NextPassed]_vars

\* ------------------------------------------------ what the claims refer to

RECURSIVE SumSet(_, _)
SumSet(S, f) ==
    IF S = {} THEN 0
    ELSE LET x == CHOOSE y \in S : TRUE IN f[x] + SumSet(S \ {x}, f)

BoardTotal(board) == SumSet(DOMAIN board.val, board.val)

Indices(list) == 1..Len(list)

\* the solved submissions of a puzzle index
SolvedAt(list, d) ==
    {i \in Indices(list) : list[i].wordleDay = d /\ list[i].guesses # Failed}

SolvedDays(list) == {list[i].wordleDay : i \in {j \in Indices(list) : list[j].guesses # Failed}}

MinGuesses(list, d) ==
    CHOOSE g \in {list[i].guesses : i \in SolvedAt(list, d)} :
        \A i \in SolvedAt(list, d) : g <= list[i].guesses

\* the players whose solved submission for d has the minimum guess count
DayWinners(list, d) ==
    {list[i].playerId : i \in {j \in SolvedAt(list, d) : list[j].guesses = MinGuesses(list, d)}}

WonDays(list, p) == {d \in SolvedDays(list) : p \in DayWinners(list, d)}

\* the sum over the puzzles p won of 1 / (number of winners), in score units
ExpectedScore(list, p) ==
    SumSet(WonDays(list, p),
           [d \in WonDays(list, p) |-> ScoreUnit \div Cardinality(DayWinners(list, d))])

\* the points the second loop of getScores hands out for puzzle index d
PointsForDay(list, d) ==
    LET best == BestPerDay(list)
        i == DayIndex(best, d)
    IN  IF i = 0 THEN 0 ELSE Len(best[i].winners) * WinnerWeight(best[i].winners)

IsSolved(result) == result.guesses # Failed

\* C1: the points getScores awards for a puzzle index are one point when some
\* submission for it is solved and none otherwise, so the scores of all players
\* add up to the number of puzzle indices that have a solved submission.
C1_PointsPerPuzzle ==
    applied = "getScores" =>
        /\ \A d \in StatDays :
              PointsForDay(results, d) =
                  (IF SolvedAt(results, d) = {} THEN 0 ELSE ScoreUnit)
        /\ BoardTotal(output) = ScoreUnit * Cardinality(SolvedDays(results))

\* two players tie for one puzzle, nobody solves the other one
C1_Witness ==
    /\ applied = "getScores"
    /\ \E d \in StatDays : Cardinality(DayWinners(results, d)) = 2
    /\ \E d \in StatDays :
          /\ \E i \in Indices(results) : results[i].wordleDay = d
          /\ SolvedAt(results, d) = {}
    /\ BoardTotal(output) = ScoreUnit

\* C2: getScores gives each player the sum, over the puzzles where the player
\* has a solved submission with the minimum guess count, of 1 / (number of
\* players with that minimum); a player who won nothing has no entry; failed
\* submissions never win and leaving them out changes no score.
C2_WinnersSplitPoint ==
    applied = "getScores" =>
        /\ \A p \in Players : ScoreOrZero(output, p) = ExpectedScore(results, p)
        /\ DOMAIN output.val = {p \in Players : WonDays(results, p) # {}}
        /\ output = getScores(SelectSeq(results, IsSolved))

\* a failed submission stands first in the list, two others tie for that puzzle
C2_Witness ==
    /\ applied = "getScores"
    /\ Len(results) = 3
    /\ results[1].guesses = Failed
    /\ \A i \in Indices(results) : results[i].wordleDay = results[1].wordleDay
    /\ Cardinality(DayWinners(results, results[1].wordleDay)) = 2
    /\ results[1].playerId \notin DOMAIN output.val
    /\ \A p \in DOMAIN output.val : output.val[p] = ScoreUnit \div 2

\* C9: getWeeklyScores(list, s, w) is getScores of the submissions whose puzzle
\* index d has s <= d <= s + w - 1, with w = 7 when the window size is omitted.
C9_WeeklyWindow ==
    LET Window(s, w) ==
            LET Inside(result) == result.wordleDay \in s..(s + w - 1)
            IN  SelectSeq(results, Inside)
    IN  /\ applied = "getWeeklyScores" =>
            output = getScores(Window(args[1], args[2]))
        /\ applied = "getWeeklyScoresDefault" =>
            output = getScores(Window(args[1], 7))

\* the default window [-5, 1] keeps a win on puzzle 1 and drops one on puzzle 2
C9_Witness ==
    /\ applied = "getWeeklyScoresDefault"
    /\ args = <<-5>>
    /\ \E i \in Indices(results) :
          results[i].wordleDay = 1 /\ results[i].guesses # Failed /\ results[i].playerId = "A"
    /\ \E i \in Indices(results) :
          results[i].wordleDay = 2 /\ results[i].guesses # Failed /\ results[i].playerId = "B"
    /\ DOMAIN output.val = {"A"}
    /\ output.val["A"] = ScoreUnit

OwnIndices(list, p) == {i \in Indices(list) : list[i].playerId = p}

\* the player's guess counts added up, a failure counted as 6
PenalisedTotal(list, p) ==
    SumSet(OwnIndices(list, p),
           [i \in OwnIndices(list, p) |->
               IF list[i].guesses = -1 THEN 6 ELSE list[i].guesses])

Abs(x) == IF x < 0 THEN -x ELSE x

\* C10: getAverages has an entry for exactly the players with a submission,
\* and the entry is the mean of the player's guess counts, a failure counted
\* as 6, rounded to the nearest hundredth.
C10_AveragesPenalisedMean ==
    applied = "getAverages" =>
        /\ DOMAIN output.val = {p \in Players : OwnIndices(results, p) # {}}
        /\ \A p \in DOMAIN output.val :
              LET n == Cardinality(OwnIndices(results, p))
                  t == PenalisedTotal(results, p)
              IN  /\ 2 * Abs(100 * t - output.val[p] * n) <= n
                  /\ output.val[p] >= 100 /\ output.val[p] <= 600

\* guesses 3, 4 and a failure average 4.33
C10_Witness ==
    /\ applied = "getAverages"
    /\ {results[i].guesses : i \in OwnIndices(results, "A")} = {3, 4, Failed}
    /\ output.val["A"] = 433

\* C3: for p # q among the keys of either board, q is in p's passed-list
\* exactly when before[p] <= before[q] and after[p] > after[q], a missing
\* entry read as 0; no player is in its own list, no list is empty and no
\* player is listed twice.
C3_PassedIff ==
    applied = "getPlayersPassed" =>
        LET Before(x) == IF x \in DOMAIN oldBoard.val THEN oldBoard.val[x] ELSE 0
            After(x) == IF x \in DOMAIN newBoard.val THEN newBoard.val[x] ELSE 0
            keys == DOMAIN oldBoard.val \cup DOMAIN newBoard.val
            Listed(x) == IF x \in DOMAIN output.val THEN SeqToSet(output.val[x]) ELSE {}
        IN  /\ DOMAIN output.val \subseteq keys
            /\ \A p \in keys : \A q \in keys \ {p} :
                  q \in Listed(p) <=> (Before(p) <= Before(q) /\ After(p) > After(q))
            /\ \A p \in DOMAIN output.val :
                  /\ output.val[p] # <<>>
                  /\ p \notin Listed(p)
                  /\ Listed(p) \subseteq keys
                  /\ Cardinality(Listed(p)) = Len(output.val[p])

\* before {A:2, B:3}, after {A:4, B:3}: B is listed under A and nothing else
C3_Witness ==
    /\ applied = "getPlayersPassed"
    /\ oldBoard.val = [p \in {"A", "B"} |-> IF p = "A" THEN 2 ELSE 3]
    /\ newBoard.val = [p \in {"A", "B"} |-> IF p = "A" THEN 4 ELSE 3]
    /\ DOMAIN output.val = {"A"}
    /\ output.val["A"] = <<"B">>

\* ------------------------------------------------- claims about the system

KindsOf(sent) == [i \in 1..Len(sent) |-> sent[i].kind]

OwnTriple(handler) == Triple(handler.channelId, handler.result)

\* C4: the table never holds two submissions of one (channel, player, puzzle
\* index) triple; of all saveSubmission calls made for a triple exactly one
\* returns and every other one throws DuplicateSubmissionError; the table
\* holds exactly the rows of the calls that returned.
C4_OneSubmissionPerTriple ==
    /\ \A r1 \in submissions : \A r2 \in submissions :
          RowTriple(r1) = RowTriple(r2) => r1 = r2
    /\ \A t \in DOMAIN saveLog : saveLog[t].ok = 1
    /\ \A h \in Handlers : handlers[h].outcome # "error"
    /\ submissions = accepted

\* two handlers raced for one triple with different guess counts: both read
\* the table before either wrote, one was stored, the other was rejected
C4_Witness ==
    /\ handlers["h1"].outcome = "ok"
    /\ handlers["h2"].outcome = "DuplicateSubmissionError"
    /\ OwnTriple(handlers["h1"]) = OwnTriple(handlers["h2"])
    /\ handlers["h1"].result.guesses # handlers["h2"].result.guesses
    /\ handlers["h1"].previousResults = <<>>
    /\ handlers["h2"].previousResults = <<>>
    /\ RowOf("c1", handlers["h1"].result) \in submissions
    /\ saveLog[OwnTriple(handlers["h1"])] = [ok |-> 1, rejected |-> 1]

\* C5: without any restart, however the runDailyDigest invocations overlap,
\* the digest of a (channel, puzzle index) pair is sent at most once.
C5_DigestSentOnce ==
    ~crashed => \A key \in DOMAIN digestSent : digestSent[key] <= 1

\* C6: a saveSubmission call for a triple that is already stored throws
\* DuplicateSubmissionError and leaves the table as it is; the handler
\* replies 'already submitted', sends nothing else and ends.
C6_DuplicateRejected ==
    [][\A h \in Handlers :
          /\ (/\ handlers[h].pc = "save"
              /\ handlers'[h].pc # "save"
              /\ \E row \in submissions : RowTriple(row) = OwnTriple(handlers[h]))
             => /\ handlers'[h].outcome = "DuplicateSubmissionError"
                /\ submissions' = submissions
                /\ handlers'[h].pc = "done"
          /\ handlers'[h].outcome = "DuplicateSubmissionError"
             => KindsOf(handlers'[h].sent) = <<"already_submitted">>]_vars

\* a second result with another guess count was rejected while the table
\* keeps the first one
C6_Witness ==
    \E h \in Handlers :
        /\ handlers[h].pc = "done"
        /\ handlers[h].outcome = "DuplicateSubmissionError"
        /\ KindsOf(handlers[h].sent) = <<"already_submitted">>
        /\ handlers[h].settings.notifyLeaderboard
        /\ RowOf(handlers[h].channelId, handlers[h].result) \notin submissions
        /\ \E row \in submissions : RowTriple(row) = OwnTriple(handlers[h])

\* C7: when the runDailyDigest invocations never overlap, whatever restarts
\* happen between and during them, the digest of a (channel, puzzle index)
\* pair is sent at most once.
C7_RerunSendsNothingAgain ==
    ~overlapped => \A key \in DOMAIN digestSent : digestSent[key] <= 1

\* C8: once saveSubmission has returned for a handler, its 'before' list holds
\* only stored rows of its channel and none of its own triple (it was read
\* before the write), and the 'after' list it compares with is the 'before'
\* list followed by its own submission.
C8_BeforeThenWrite ==
    \A h \in Handlers :
        LET me == handlers[h] IN
        me.outcome = "ok" =>
            /\ \A i \in 1..Len(me.previousResults) :
                  /\ RowOf(me.channelId, me.previousResults[i]) \in submissions
                  /\ Triple(me.channelId, me.previousResults[i]) # OwnTriple(me)
            /\ RowOf(me.channelId, me.result) \in submissions
            /\ me.pc = "done" =>
                  /\ Len(me.updatedResults) = Len(me.previousResults) + 1
                  /\ SubSeq(me.updatedResults, 1, Len(me.previousResults))
                         = me.previousResults
                  /\ me.updatedResults[Len(me.updatedResults)] = me.result

\* a handler compared its lists while the table already held another
\* player's concurrent submission that is in neither list
C8_Witness ==
    \E h \in Handlers :
        LET me == handlers[h] IN
        /\ me.pc = "done"
        /\ me.outcome = "ok"
        /\ Len(me.previousResults) = 1
        /\ Len(me.updatedResults) = 2
        /\ \E row \in submissions :
              /\ row.channelId = me.channelId
              /\ row.playerId # me.result.playerId
              /\ \A i \in 1..Len(me.updatedResults) : me.updatedResults[i] # ResultOf(row)

\* ------------------------------------------------------------------- C11

\* the guess counts of the solved submissions for puzzle index d
SolvedGuesses(list, d) == {list[i].guesses : i \in SolvedAt(list, d)}

\* the players with a solved submission for d in g guesses
SolversIn(list, d, g) ==
    {list[i].playerId : i \in {j \in SolvedAt(list, d) : list[j].guesses = g}}

\* C11: getDayLeaderboardsMulti returns groups in strictly ascending order of
\* guess count, one group per guess count of a solved submission for the
\* puzzle index, and a player is in the group of g exactly when that player
\* has a solved submission for the index in g guesses; failed submissions and
\* other puzzle indices are in no group.
C11_PodiumGroups ==
    applied = "getDayLeaderboardsMulti" =>
        LET d == args[1]
            groups == output
        IN  /\ \A i \in 1..Len(groups) : \A j \in 1..Len(groups) :
                   i < j => groups[i].guesses < groups[j].guesses
            /\ {groups[i].guesses : i \in 1..Len(groups)} = SolvedGuesses(results, d)
            /\ \A i \in 1..Len(groups) :
                   /\ SeqToSet(groups[i].playerIds) = SolversIn(results, d, groups[i].guesses)
                   /\ groups[i].guesses # Failed

\* two players solved the puzzle in 3 and share one group, a third failed
C11_Witness ==
    /\ applied = "getDayLeaderboardsMulti"
    /\ \E i \in 1..Len(output) :
          /\ output[i].guesses = 3
          /\ Cardinality(SeqToSet(output[i].playerIds)) = 2
    /\ \E k \in Indices(results) :
          results[k].wordleDay = args[1] /\ results[k].guesses = Failed

\* ------------------------------------------------------------------- C12

\* C12: every submission parseWordleResult returns has a guess count in 1..6
\* or the failure sentinel -1; a share text whose guesses token is a digit
\* outside 1..6 never yields a submission.
C12_GuessesInRange ==
    (applied = "parseWordleResult" /\ output # NullResult) =>
        output.guesses \in (1..6) \cup {Failed}

\* ------------------------------------------------------------------- C13

\* the non-blank lines of a grid: the symbols that are the first one of
\* their line that is not whitespace
GridLineCount(grid) ==
    Cardinality({k \in 1..Len(grid) :
        /\ grid[k] \notin Whitespace
        /\ \A j \in 1..(k - 1) :
              (\A i \in j..(k - 1) : grid[i] # "\n") => grid[j] \in Whitespace})

\* the guess count a guesses token stands for, 6 for a failed result
RowsExpected(token) == IF token \in DigitChars THEN DigitValue(token) ELSE 6

\* the text matches the share pattern, and its grid has another number of
\* non-blank lines than the guess count or its submitter identity is empty
InvalidShare(text, userId) ==
    LET match == RegexMatch(RemoveCommas(text))
    IN  /\ match.matched
        /\ \/ GridLineCount(match.rest) # RowsExpected(match.guessesRaw)
           \/ userId = ""

SubmissionKinds == {"logged", "early_podium", "running_late", "early_bird", "just_passed"}

\* C13: a message that matches the share pattern but whose grid has another
\* number of non-blank lines than the guess count (6 for X), or whose
\* submitter identity is empty, makes parseWordleResult return null; the
\* handler then stores nothing, sends no acknowledgement, podium, timing or
\* pass notification, and ends.
C13_InvalidShareIgnored ==
    [][\A h \in Handlers :
          LET before == handlers[h]
              after == handlers'[h]
          IN  /\ (before.pc = "idle" /\ after.pc # "idle"
                    /\ InvalidShare(after.text, after.userId)) =>
                     /\ parseWordleResult(after.text, after.userId, 0) = NullResult
                     /\ after.pc = "done"
                     /\ after.result = NoResult
                     /\ \A i \in 1..Len(after.sent) : after.sent[i].kind \notin SubmissionKinds
                     /\ submissions' = submissions
              /\ (before.pc = "done" /\ InvalidShare(before.text, before.userId)) =>
                     after \in {before, IdleHandler}]_vars

\* one invocation has ended on a share whose grid is too short, the other on
\* a share without a submitter identity
C13_Witness ==
    /\ handlers["h1"].pc = "done"
    /\ handlers["h1"].userId # ""
    /\ InvalidShare(handlers["h1"].text, handlers["h1"].userId)
    /\ handlers["h2"].pc = "done"
    /\ handlers["h2"].userId = ""
    /\ InvalidShare(handlers["h2"].text, handlers["h2"].userId)
    /\ submissions = {}

\* ------------------------------------------------------------------- C14

\* puzzle numbers as they are written, with the number that is meant
WrittenNumbers ==
    {[text |-> <<"3">>, value |-> 3],
     [text |-> <<"1", "5", "9", "9">>, value |-> 1599],
     [text |-> <<"1", ",", "5", "9", "9">>, value |-> 1599]}

\* 'Wordle n g/6', a star when hard, then exactly g grid rows
ValidShare(number, g, hard) ==
    <<"Wordle", " ">> \o number
    \o <<" ", CHOOSE c \in DigitChars : DigitValue(c) = g, "/", "6">>
    \o (IF hard THEN <<"*">> ELSE <<>>)
    \o GridRows(g)

\* C14: a share text 'Wordle n g/6' with g in 1..6, followed by exactly g
\* non-blank grid rows and posted by a non-empty player id, parses to a
\* submission with puzzle index n, guess count g and hardMode false; with a
\* star directly after g/6 hardMode is true; thousands-separator commas in
\* the number do not change the result.
C14_ValidShareParsed ==
    applied = "parseWordleResult" =>
        \A n \in WrittenNumbers : \A g \in 1..6 : \A hard \in BOOLEAN :
            (args[1] = ValidShare(n.text, g, hard) /\ args[2] # "") =>
                /\ output # NullResult
                /\ output.wordleDay = n.value
                /\ output.guesses = g
                /\ output.hardMode = hard
                /\ output.playerId = args[2]

\* puzzle 1,599 solved in 4 in hard mode has been parsed
C14_Witness ==
    /\ applied = "parseWordleResult"
    /\ args[1] = ValidShare(<<"1", ",", "5", "9", "9">>, 4, TRUE)
    /\ args[2] = "A"
    /\ output.wordleDay = 1599
    /\ output.hardMode

\* ------------------------------------------------------------------- C15

\* the number of whole days elapsed since the first puzzle, plus one: the T
\* with (T - 1) days <= elapsed time < T days
WholeDaysPlusOne(since) ==
    CHOOSE T \in (-10)..(StartDay + 10) :
        (T - 1) * MsPerDay <= since /\ since < T * MsPerDay

\* C15: with T the number of whole days elapsed since 2021-06-20 00:00 UTC
\* plus one, which is getWordleDay(reference), clampWordleDay(d, 1, reference)
\* is true exactly for d in {T-1, T, T+1}.
C15_ClampWithinOne ==
    applied = "clampWordleDay" =>
        LET T == WholeDaysPlusOne(clock.sinceFirst)
        IN  /\ getWordleDay(clock) = T
            /\ output = (args[1] \in {T - 1, T, T + 1})

\* at the last millisecond of a day, the index two days ahead was rejected
C15_Witness ==
    /\ applied = "clampWordleDay"
    /\ clock.sinceFirst % MsPerDay = MsPerDay - 1
    /\ args[1] = getWordleDay(clock) + 2
    /\ output = FALSE

\* ------------------------------------------------------------------- C16

\* the puzzle index is more than 1 away from today's computed index
OutOfDate(result) == Abs(result.wordleDay - getWordleDay(clock)) > 1

\* C16: for a validly parsed submission whose puzzle index is more than 1
\* away from today's computed index, handleWordleSubmission replies with the
\* out-of-date message and does nothing else: it reads and writes no table,
\* the submission is never stored, and no acknowledgement or notification is
\* sent.
C16_OutOfDateRejected ==
    [][\A h \in Handlers :
          LET before == handlers[h]
              after == handlers'[h]
          IN  /\ (before.pc = "idle" /\ after.pc # "idle"
                    /\ after.result # NoResult /\ OutOfDate(after.result)) =>
                     /\ after.sent = <<Message("out_of_date", <<>>)>>
                     /\ after.pc = "done"
                     /\ after.previousResults = <<>>
                     /\ after.outcome = "none"
                     /\ submissions' = submissions
              /\ (before.pc = "done" /\ before.result # NoResult /\ OutOfDate(before.result)) =>
                     after \in {before, IdleHandler}
              /\ \A row \in submissions' : ~OutOfDate(row)]_vars

\* a share for the puzzle two days ahead has been answered while the store
\* holds another submission
C16_Witness ==
    /\ handlers["h1"].pc = "done"
    /\ handlers["h1"].result.wordleDay = getWordleDay(clock) + 2
    /\ handlers["h1"].sent = <<Message("out_of_date", <<>>)>>
    /\ submissions # {}

\* ------------------------------------------------------------------- C17

\* the (channel, puzzle index) pair a run is working on
PairOf(run) == <<Head(run.channels), Head(run.targetDays)>>

\* the store holds a submission of the channel for the puzzle index
StoreHolds(pair) ==
    \E row \in submissions : row.channelId = pair[1] /\ row.wordleDay = pair[2]

\* C17: runDailyDigest sends a digest for a (channel, puzzle index) pair only
\* if, when it checks, the pair is not in the sent log and the store holds a
\* submission of the channel for the index; a pair is written to the sent log
\* only after its digest has been handed to the messaging collaborator, so
\* every pair in the sent log has had its digest sent.
C17_DigestSafety ==
    [][/\ \A r \in Runs :
             (digests[r].pc = "day" /\ digests'[r].pc = "send") =>
                 /\ PairOf(digests[r]) \notin dailyDigestLog
                 /\ StoreHolds(PairOf(digests[r]))
       /\ \A pair \in DOMAIN digestSent' :
             CountOf(digestSent', pair) > CountOf(digestSent, pair) =>
                 \E r \in Runs :
                     /\ digests[r].pc = "send"
                     /\ PairOf(digests[r]) = pair
                     /\ StoreHolds(pair)
       /\ \A pair \in dailyDigestLog' : CountOf(digestSent', pair) >= 1]_vars

\* a run has sent a digest, logged it and returned
C17_Witness ==
    \E r \in Runs :
        /\ digests[r].pc = "done"
        /\ digests[r].sentCount = 1
        /\ \E pair \in dailyDigestLog : CountOf(digestSent, pair) = 1

\* ------------------------------------------------------------------- C18

\* C18: the submission log is append-only: over messages, slash commands,
\* settings updates and digest runs no stored submission is modified or
\* removed, so the stored submissions only grow.
C18_AppendOnly ==
    [][submissions \subseteq submissions']_vars

\* a submission has been added, a digest sent and logged, and the settings
\* of the channel updated by a command
C18_Witness ==
    /\ accepted # {}
    /\ Cardinality(submissions) >= 2
    /\ dailyDigestLog # {}
    /\ command.name = "config"
    /\ chatSettings["c1"] # DefaultSettings

\* ------------------------------------------------------------------- C19

LeaderboardCommands == {"scores", "averages", "weekly scores", "podium"}

\* the command is /podium with a first argument that is no number
PodiumWithoutNumber(cmd) ==
    /\ cmd.name = "podium"
    /\ Len(cmd.args) > 0
    /\ cmd.args[1] # <<>>
    /\ cmd.args[1][1] \notin DigitChars

\* C19 as stated: when the store is not configured, each of /scores,
\* /averages, /weekly and /podium replies with the 'storage is not
\* configured' message, sends no leaderboard and propagates no error.
C19_NotConfiguredReply ==
    (~dbConfigured /\ command.name \in LeaderboardCommands) =>
        /\ command.sent = NotConfiguredReply
        /\ ~command.threw

\* C19 amended: /podium with a first argument that is no number replies with
\* the request for a valid Wordle day before it reaches the store; every
\* other call of the four commands replies with the 'storage is not
\* configured' message; none sends a leaderboard or propagates an error.
C19_NotConfiguredReplyForValidCall ==
    (~dbConfigured /\ command.name \in LeaderboardCommands) =>
        /\ command.sent = IF PodiumWithoutNumber(command)
                          THEN <<Message("invalid_day", <<>>)>>
                          ELSE NotConfiguredReply
        /\ ~command.threw

\* /podium without an argument has been answered with the store not configured
C19_Witness ==
    /\ ~dbConfigured
    /\ command.name = "podium"
    /\ command.args = <<>>
    /\ command.sent = NotConfiguredReply

\* ------------------------------------------------------------------- C20

\* seconds since midnight capped at 86399
Capped(seconds) == IF seconds > 86399 THEN 86399 ELSE seconds

\* the list without the submissions of the players other than p
OwnOnly(list, p) ==
    LET Own(result) == result.playerId = p IN SelectSeq(list, Own)

\* C20: getAverageTime(list, p) is {avg: 0, std: 0} when p has no submission
\* in the list and {avg: v, std: 0} when p has exactly one, v being its
\* seconds since midnight capped at 86399; the submissions of other players
\* do not influence the result.
C20_AverageTimeSmallHistory ==
    applied = "getAverageTime" =>
        LET p == args[1]
            own == OwnOnly(results, p)
        IN  /\ Len(own) = 0 => (output.avgNum = 0 /\ output.varNum = 0)
            /\ Len(own) = 1 =>
                   /\ output.avgNum = Capped(own[1].secondsSinceMidnight) * output.avgDen
                   /\ output.varNum = 0
            /\ output.avgDen > 0
            /\ output.varDen > 0
            /\ output = getAverageTime(own, p)

\* the one submission of a player was made past the last second of the day,
\* among the submissions of another player
C20_Witness ==
    /\ applied = "getAverageTime"
    /\ Len(OwnOnly(results, args[1])) = 1
    /\ OwnOnly(results, args[1])[1].secondsSinceMidnight = SecondsInDay
    /\ Len(results) = 3
    /\ output.avgNum = 86399 * output.avgDen

\* ------------------------------------------------------------------- C21

\* no two submissions of the list are by one player for one puzzle index
TripleUnique(list) ==
    \A i \in Indices(list) : \A j \in Indices(list) :
        (list[i].playerId = list[j].playerId /\ list[i].wordleDay = list[j].wordleDay)
            => i = j

\* the orders of a list without repeated elements
Reorderings(list) == Orders(SeqToSet(list))

\* the guess counts of the groups in order, each with its set of players
PodiumShape(groups) ==
    [i \in 1..Len(groups) |->
        [guesses |-> groups[i].guesses, players |-> SeqToSet(groups[i].playerIds)]]

HistoryDay(d, aThrees, aFours, bThrees, bFours) ==
    (IF d <= aThrees + aFours
     THEN <<Result("A", d, IF d <= aThrees THEN 3 ELSE 4, 0)>> ELSE <<>>)
    \o (IF d <= bThrees + bFours
        THEN <<Result("B", d, IF d <= bThrees THEN 3 ELSE 4, 0)>> ELSE <<>>)

\* the list in the order of getChannelSubmissions, by puzzle index
RECURSIVE HistoryFrom(_, _, _, _, _)
HistoryFrom(d, aThrees, aFours, bThrees, bFours) ==
    IF d > aThrees + aFours /\ d > bThrees + bFours THEN <<>>
    ELSE HistoryDay(d, aThrees, aFours, bThrees, bFours)
         \o HistoryFrom(d + 1, aThrees, aFours, bThrees, bFours)

\* short histories and long ones, whose means lie less than 0.01 apart
NotifyHistories ==
    {HistoryFrom(1, a3, a4, b3, b4) :
        a3 \in 0..2, a4 \in 0..5, b3 \in {0, 1, 5}, b4 \in {0, 1, 12}}

SubmissionsOf(list, p) == {i \in Indices(list) : list[i].playerId = p}

InitNotify ==
    /\ results \in NotifyHistories
    /\ applied = "none"
    /\ args = <<>>
    /\ output = <<>>
    /\ oldBoard = EmptyBoard
    /\ newBoard = EmptyBoard
    /\ HandlersIdle
    /\ DigestIdle
    /\ dbConfigured = TRUE
    /\ submissions = {}
    /\ chatSettings = [c \in Channels |-> DefaultSettings]
    /\ dailyDigestLog = {}
    /\ \E dow \in {0, 2} : clock = ClockAt(StartDay, dow, 12, 0)

\* previousResults is the list read before the save, updatedResults the list
\* with the submission of a puzzle index the player has not played yet
ApplyMaybeNotifyLeaderboards ==
    /\ applied = "none"
    /\ \E p \in {"A", "B"}, g \in StatGuesses :
          LET result == Result(p, Cardinality(SubmissionsOf(results, p)) + 1, g, 0)
          IN  /\ args' = <<result>>
              /\ output' = maybeNotifyLeaderboards(DefaultSettings, results,
                               UpdatedResults(results, result), p, clock)
    /\ applied' = "maybeNotifyLeaderboards"
    /\ UNCHANGED <<sentVars, commandVars, results, oldBoard, newBoard, storeVars, handlerVars, digestVars>>

NextNotify == ApplyMaybeNotifyLeaderboards

SpecNotify == InitNotify /\ [][NextNotify]_vars

\* ------------------------------------------------------------------- C22

\* the sum of positiveGuesses over the submissions of p
GuessTotal(list, p) ==
    SumSet(SubmissionsOf(list, p),
           [i \in SubmissionsOf(list, p) |-> positiveGuesses(list[i].guesses)])

GuessCount(list, p) == Cardinality(SubmissionsOf(list, p))

\* mean of p <= mean of q, on the exact fractions
MeanAtMost(list, p, q) ==
    GuessTotal(list, p) * GuessCount(list, q) <= GuessTotal(list, q) * GuessCount(list, p)

\* the players announced as passed in a category
AnnouncedPassed(messages, category) ==
    UNION {SeqToSet(messages[i].detail[3]) :
             i \in {j \in 1..Len(messages) :
                      messages[j].kind = "just_passed" /\ messages[j].detail[1] = category}}

\* C22: a player q is reported as passed by the submitter p in 'average
\* guesses' exactly when the exact mean of p before the submission is at most
\* the exact mean of q and the exact mean of p after it is greater than that
\* of q, both having submissions before; rounding to two decimals neither
\* creates nor suppresses a reported pass.
C22_UnroundedComparison ==
    applied = "maybeNotifyLeaderboards" =>
        LET p == args[1].playerId
            before == results
            after == UpdatedResults(results, args[1])
        IN  \A q \in Players \ {p} :
                (GuessCount(before, p) > 0 /\ GuessCount(before, q) > 0) =>
                    (q \in AnnouncedPassed(output, "average guesses")
                        <=> (MeanAtMost(before, p, q) /\ ~MeanAtMost(after, p, q)))

\* ------------------------------------------------------------------- C23

\* C23: for each channel and puzzle index the early-podium message is sent
\* at most once, over any sequence of accepted submissions.
C23_EarlyPodiumOnce ==
    \A key \in DOMAIN podiumsSent : podiumsSent[key] <= 1

\* ------------------------------------------------------------------- C24

\* the stored rows of a channel for a puzzle index
RowsFor(table, channelId, wordleDay) ==
    {row \in table : row.channelId = channelId /\ row.wordleDay = wordleDay}

AllHandlersCompleted == \A h \in Handlers : handlers[h].pc \in {"idle", "done", "threw"}

\* C24: with the early podium enabled and a threshold k > 0, in every
\* interleaving of the handlers of one channel: once all handlers have
\* completed and the store holds submissions of at least k distinct players
\* for a puzzle index, at least one of them solved, an early-podium message
\* for that index has been sent.
C24_EarlyPodiumSent ==
    AllHandlersCompleted =>
        \A c \in Channels : \A d \in {row.wordleDay : row \in submissions} :
            LET rows == RowsFor(submissions, c, d)
                k == chatSettings[c].earlyPodiumThreshold
            IN  (/\ chatSettings[c].earlyPodium
                 /\ k > 0
                 /\ Cardinality({row.playerId : row \in rows}) >= k
                 /\ \E row \in rows : row.guesses # Failed)
                    => CountOf(podiumsSent, <<c, d>>) >= 1

\* ------------------------------------------------------------------- C25

\* (hour, minute) at or after (digestHour, digestMinute), as minutes of the day
AtOrAfter(hour, minute, digestHour, digestMinute) ==
    hour * 60 + minute >= digestHour * 60 + digestMinute

DigestTimeReached(channelId) ==
    AtOrAfter(clock.hour, clock.minute,
              chatSettings[channelId].digestHour, chatSettings[channelId].digestMinute)

NotificationKinds == {"early_podium", "running_late", "early_bird", "just_passed"}

\* C26: the 'Logged Wordle' acknowledgement is sent only after saveSubmission
\* has succeeded, exactly once per stored submission; the early-podium,
\* timing and pass notifications of a handler are sent only after its
\* acknowledgement; when saveSubmission fails none of these is sent.
C26_AckAfterSave ==
    /\ \A triple \in DOMAIN acksSent :
           /\ acksSent[triple] <= 1
           /\ acksSent[triple] = 1 => \E row \in submissions : RowTriple(row) = triple
    /\ AllHandlersCompleted =>
           \A row \in submissions : CountOf(acksSent, RowTriple(row)) = 1
    /\ \A h \in Handlers :
           LET sent == handlers[h].sent
           IN  /\ \A i \in 1..Len(sent) :
                      sent[i].kind \in NotificationKinds =>
                          \E j \in 1..(i - 1) : sent[j].kind = "logged"
               /\ (\E i \in 1..Len(sent) : sent[i].kind = "logged") =>
                      /\ handlers[h].outcome = "ok"
                      /\ OwnTriple(handlers[h]) \in {RowTriple(row) : row \in submissions}
               /\ handlers[h].outcome \notin {"none", "ok"} =>
                      \A i \in 1..Len(sent) :
                          sent[i].kind \notin NotificationKinds \cup {"logged"}

\* one handler has acknowledged its submission and then sent the early
\* podium, the other had its duplicate rejected and sent the rejection alone
C26_Witness ==
    \E h \in Handlers : \E o \in Handlers \ {h} :
        /\ handlers[h].pc = "done" /\ handlers[h].outcome = "ok"
        /\ Len(handlers[h].sent) >= 2
        /\ handlers[h].sent[1].kind = "logged"
        /\ handlers[h].sent[2].kind = "early_podium"
        /\ handlers[o].pc = "done"
        /\ handlers[o].outcome = "DuplicateSubmissionError"
        /\ handlers[o].sent = <<Message("already_submitted", <<>>)>>

\* ------------------------------------------------------------------- C27

\* the handler holds a submission that parsed and passed the date check
HoldsFreshSubmission(handler) ==
    /\ handler.result # NoResult
    /\ clampWordleDay(handler.result.wordleDay, clock)

\* C27: when the store is not configured, handling a validly parsed, fresh
\* submission replies with the 'storage is not configured' message, and
\* DatabaseNotConfiguredError does not propagate out of
\* handleWordleSubmission.
C27_NotConfiguredHandled ==
    \A h \in Handlers :
        (/\ ~dbConfigured
         /\ handlers[h].pc \in {"done", "threw"}
         /\ HoldsFreshSubmission(handlers[h]))
            => /\ handlers[h].pc = "done"
               /\ handlers[h].sent = <<Message("not_configured", <<>>)>>

\* ------------------------------------------------------------------- C28

\* the list without its last submission
Front(list) == SubSeq(list, 1, Len(list) - 1)

\* C28: for every list L with at most one submission per player and puzzle
\* index, and a new submission s by p for a puzzle index p has not submitted
\* for, getScores(L + [s]) gives p a score at least as large as getScores(L)
\* and every other player a score at most as large, a missing player
\* counting as 0.  The list at hand is L + [s].
C28_NewSubmissionMonotone ==
    (applied = "getScores" /\ Len(results) > 0 /\ TripleUnique(results)) =>
        LET s == results[Len(results)]
            old == getScores(Front(results))
        IN  /\ ScoreOrZero(output, s.playerId) >= ScoreOrZero(old, s.playerId)
            /\ \A q \in Players \ {s.playerId} :
                   ScoreOrZero(output, q) <= ScoreOrZero(old, q)

\* the new submission ties the winner of its puzzle index: the submitter, who
\* had a point from another index, gains half a point and the winner loses half
C28_Witness ==
    /\ applied = "getScores"
    /\ Len(results) = 3
    /\ TripleUnique(results)
    /\ LET s == results[Len(results)]
           old == getScores(Front(results))
       IN  /\ ScoreOrZero(old, s.playerId) = ScoreUnit
           /\ ScoreOrZero(output, s.playerId) = ScoreUnit + ScoreUnit \div 2
           /\ \E q \in Players \ {s.playerId} :
                  /\ ScoreOrZero(old, q) = ScoreUnit
                  /\ ScoreOrZero(output, q) = ScoreUnit \div 2

\* ------------------------------------------------------------------- C29

\* the list without the submissions for puzzle index d
WithoutDay(list, d) ==
    LET Other(result) == result.wordleDay # d IN SelectSeq(list, Other)

\* what the submissions for d add to the score of p
CreditFor(list, d, p) ==
    ScoreOrZero(getScores(list), p) - ScoreOrZero(getScores(WithoutDay(list, d)), p)

\* C29: for every list and puzzle index d with at least one solved
\* submission, the players of the first group of
\* getDayLeaderboardsMulti(list, d) are exactly the players getScores credits
\* for d, each with 1 / (size of the group); nobody else gets points for d.
C29_FirstGroupCredited ==
    (applied = "getDayLeaderboardsMulti" /\ SolvedAt(results, args[1]) # {}) =>
        /\ Len(output) > 0
        /\ LET d == args[1]
               first == SeqToSet(output[1].playerIds)
           IN  \A p \in Players :
                   CreditFor(results, d, p) =
                       IF p \in first THEN ScoreUnit \div Cardinality(first) ELSE 0

\* two players share the first group, a third solved the puzzle in more
\* guesses and gets nothing for it
C29_Witness ==
    /\ applied = "getDayLeaderboardsMulti"
    /\ Len(output) = 2
    /\ Cardinality(SeqToSet(output[1].playerIds)) = 2
    /\ \E p \in Players :
          /\ p \in SeqToSet(output[2].playerIds)
          /\ CreditFor(results, args[1], p) = 0
    /\ \E p \in SeqToSet(output[1].playerIds) :
          CreditFor(results, args[1], p) = ScoreUnit \div 2

\* ------------------------------------------------------------------- C30

\* the 'just passed' messages among the messages sent
PassMessages(messages) ==
    {messages[i] : i \in {j \in 1..Len(messages) : messages[j].kind = "just_passed"}}

\* C30: whenever maybeNotifyLeaderboards announces that p 'just passed' q in
\* 'average guesses', the value of p in getAverages after the submission is
\* strictly greater than that of q, and was at most that of q before; only
\* passes whose passer is the submitting player are announced.
C30_AnnouncedPassIsHigherAverage ==
    applied = "maybeNotifyLeaderboards" =>
        LET p == args[1].playerId
            old == getAverages(results)
            new == getAverages(UpdatedResults(results, args[1]))
        IN  /\ \A message \in PassMessages(output) : message.detail[2] = p
            /\ \A q \in AnnouncedPassed(output, "average guesses") :
                   /\ q # p
                   /\ ScoreOrZero(new, p) > ScoreOrZero(new, q)
                   /\ ScoreOrZero(old, p) <= ScoreOrZero(old, q)

\* A had the lower average, submits a 4 and is announced as having passed B
\* in 'average guesses'
C30_Witness ==
    /\ applied = "maybeNotifyLeaderboards"
    /\ args[1].playerId = "A"
    /\ args[1].guesses = 4
    /\ AnnouncedPassed(output, "average guesses") = {"B"}
    /\ GuessCount(results, "A") > 0
    /\ ScoreOrZero(getAverages(results), "A") < ScoreOrZero(getAverages(results), "B")
    /\ ScoreOrZero(getAverages(UpdatedResults(results, args[1])), "A")
           > ScoreOrZero(getAverages(UpdatedResults(results, args[1])), "B")

\* the submission of A lowers the average of A below that of B: B has passed
\* A by the definition of getPlayersPassed, and nothing is announced for it
C30_OtherPasserSilent ==
    /\ applied = "maybeNotifyLeaderboards"
    /\ args[1].playerId = "A"
    /\ GuessCount(results, "A") > 0
    /\ "B" \in DOMAIN getPlayersPassed(getAverages(results),
                                       getAverages(UpdatedResults(results, args[1]))).val
    /\ AnnouncedPassed(output, "average guesses") = {}

====
